---- MODULE Spec2Model ----
(***************************************************************************)
(* Model of the Maven repository worker (Cloudflare Worker over an R2      *)
(* bucket): the publish handlers, the artifact GET passthrough and the     *)
(* purge operator of the final worker, and the server-computing snapshot   *)
(* path of the earlier worker.                                             *)
(*                                                                         *)
(* Text (paths, file names, keys, headers) is a sequence of tokens: every  *)
(* punctuation mark the code looks at ("/", ".", "-", ":", " ") is a token *)
(* of its own and every run of other characters is one token, so that      *)
(* startsWith, endsWith, includes, split, join and replace are computed on *)
(* the text as the code computes them.                                     *)
(***************************************************************************)
EXTENDS Integers, Sequences, FiniteSets, TLC

VARIABLES
  store,     \* the bucket: object key -> content
  h,         \* the handler instances
  reqCount,  \* number of requests received so far
  released,  \* history: primary keys written by a successful PUT /releases
             \* and not deleted since
  now        \* the wall clock (Date), in ticks

vars == <<store, h, reqCount, released, now>>

\* ------------------------------------------------------------------------
\* Bounds
\* ------------------------------------------------------------------------
MaxReq == 4       \* requests of a run with a purge
MaxSeqReq == 3    \* requests of a run of uploads and downloads
MaxPage == 2      \* objects per listing page
MaxClock == 3     \* last tick of the clock
MaxSnapReq == 3   \* requests of a run of server-computed snapshot uploads
MaxRaceReq == 2   \* requests of a run with interleaved handlers
MaxPubReq == 3    \* requests of a run of uploads of every path shape
MaxAuthReq == 3   \* requests of a run with every kind of Authorization header
MaxCatReq == 4    \* requests of a run of uploads and catalog reads
MaxLatestReq == 3 \* requests of a run of metadata uploads and latest reads
MaxVersions == 3  \* versions listed in a metadata document that is sorted
MaxFailReq == 2   \* requests of a run in which store operations may fail
MaxMethodReq == 2 \* requests of a run with every method on every route
MaxNameReq == 2   \* requests of a run of snapshot uploads under Maven file names
MaxListReq == 4   \* requests of a run of uploads and listings
MaxMalformedReq == 2 \* requests of a run with malformed Authorization headers
MaxCredReq == 2   \* requests of a run with credentials that hold further colons
MaxEmptyReq == 2  \* requests of a run of uploads to paths with an empty segment
MaxMultiReq == 4  \* requests of a run of uploads of the files of one version
MaxVersionedReq == 3 \* requests of a run of uploads checked by version
MaxSnapFailReq == 3 \* requests of a run of snapshot uploads whose store operations may fail
MaxFrameReq == 3  \* requests of a run of uploads and repeated reads
MaxPurgeFrameReq == 4 \* requests of a run of a purge among neighbouring objects
MaxNamespaceReq == 3 \* requests of a run of uploads and downloads through both roots

Handlers == {1, 2}

\* ------------------------------------------------------------------------
\* Text primitives (String.prototype)
\* ------------------------------------------------------------------------
StartsWith(s, p) == Len(p) <= Len(s) /\ SubSeq(s, 1, Len(p)) = p

EndsWith(s, p) == Len(p) <= Len(s) /\ SubSeq(s, Len(s) - Len(p) + 1, Len(s)) = p

Includes(s, p) == \E i \in 1..(Len(s) - Len(p) + 1) : SubSeq(s, i, i + Len(p) - 1) = p

\* s.substring(p.length) for a prefix p of s
DropPrefix(s, p) == SubSeq(s, Len(p) + 1, Len(s))

RECURSIVE Split(_, _)
Split(s, sep) ==
  IF \A i \in 1..Len(s) : s[i] # sep
  THEN <<s>>
  ELSE LET i == CHOOSE i \in 1..Len(s) : s[i] = sep /\ \A j \in 1..(i - 1) : s[j] # sep
       IN  <<SubSeq(s, 1, i - 1)>> \o Split(SubSeq(s, i + 1, Len(s)), sep)

RECURSIVE Join(_, _)
Join(parts, sep) ==
  IF Len(parts) = 0 THEN <<>>
  ELSE IF Len(parts) = 1 THEN parts[1]
  ELSE parts[1] \o <<sep>> \o Join(Tail(parts), sep)

\* s.replace(/\./g, '/')
ReplaceDots(s) == [i \in 1..Len(s) |-> IF s[i] = "." THEN "/" ELSE s[i]]

\* Number of characters of a token, for String.prototype.length
TokLen ==
  ("/" :> 1) @@ ("." :> 1) @@ ("-" :> 1) @@ (":" :> 1) @@ (" " :> 1) @@
  ("1" :> 1) @@ ("0" :> 1) @@ ("a" :> 1) @@ ("com" :> 3) @@ ("amber" :> 5) @@
  ("common" :> 6) @@ ("jar" :> 3) @@ ("pom" :> 3) @@ ("txt" :> 3) @@ ("xml" :> 3) @@
  ("asc" :> 3) @@ ("sha1" :> 4) @@ ("sha256" :> 6) @@ ("sha512" :> 6) @@
  ("md5" :> 3) @@ ("module" :> 6) @@ ("maven" :> 5) @@ ("metadata" :> 8) @@
  ("SNAPSHOT" :> 8) @@ ("releases" :> 8) @@ ("snapshots" :> 9) @@ ("api" :> 3) @@
  ("purge" :> 5) @@ ("iamkaf" :> 6) @@ ("hidden" :> 6) @@ ("2" :> 1) @@
  ("sources" :> 7) @@ ("javadoc" :> 7)

RECURSIVE CharLen(_)
CharLen(s) == IF Len(s) = 0 THEN 0 ELSE TokLen[Head(s)] + CharLen(Tail(s))

\* Tokens in byte order.  Words are separated by punctuation, which sorts
\* before every letter, so the order of token sequences is the order of the
\* strings.
TokOrder ==
  <<" ", "-", ".", "/", "0", "1", "2", ":", "SNAPSHOT", "a", "amber", "api", "asc",
    "com", "common", "hidden", "iamkaf", "jar", "javadoc",
    "maven", "md5", "metadata", "module", "pom",
    "purge", "releases", "sha1", "sha256", "sha512", "snapshots", "sources", "txt", "xml">>

TokRank(t) == CHOOSE i \in 1..Len(TokOrder) : TokOrder[i] = t

RECURSIVE KeyLess(_, _)
KeyLess(a, b) ==
  IF Len(b) = 0 THEN FALSE
  ELSE IF Len(a) = 0 THEN TRUE
  ELSE IF Head(a) = Head(b) THEN KeyLess(Tail(a), Tail(b))
  ELSE TokRank(Head(a)) < TokRank(Head(b))

\* ------------------------------------------------------------------------
\* Object store (R2 bucket binding): a flat map from keys to contents
\* ------------------------------------------------------------------------
R2Head(st, key) == key \in DOMAIN st

\* Variant: a conditional put that keeps an object already present
R2Put_IfAbsent(st, key, content) ==
  [k \in (DOMAIN st) \cup {key} |-> IF k \in DOMAIN st THEN st[k] ELSE content]

R2Put(st, key, content) ==
  [k \in (DOMAIN st) \cup {key} |-> IF k = key THEN content ELSE st[k]]

R2Delete(st, keys) == [k \in (DOMAIN st) \ keys |-> st[k]]

RECURSIVE SortKeys(_)
SortKeys(S) ==
  IF S = {} THEN <<>>
  ELSE LET m == CHOOSE k \in S : \A o \in S \ {k} : KeyLess(k, o)
       IN  <<m>> \o SortKeys(S \ {m})

Range(q) == {q[i] : i \in 1..Len(q)}

\* list({prefix, cursor}) answered with a page of at most limit objects in
\* key order; the cursor resumes after the last key of the previous page.
R2List(st, prefix, cursor, limit) ==
  LET matching == {k \in DOMAIN st :
                     StartsWith(k, prefix) /\ (cursor = <<>> \/ KeyLess(cursor, k))}
      sorted   == SortKeys(matching)
      n        == IF Len(sorted) < limit THEN Len(sorted) ELSE limit
      objects  == SubSeq(sorted, 1, n)
  IN  [objects   |-> objects,
       truncated |-> Len(sorted) > n,
       cursor    |-> IF Len(sorted) > n THEN objects[n] ELSE <<>>]

\* Entries of one listing page when no limit is passed (1000 in R2)
ListLimit == 2

\* The entry a key contributes to a listing with delimiter "/": the key
\* itself when nothing but a file name follows the prefix, else the prefix
\* extended up to and including the next "/"
DelimitedEntry(k, prefix) ==
  LET rest == DropPrefix(k, prefix) IN
  IF \A n \in 1..Len(rest) : rest[n] # "/" THEN k
  ELSE LET n == CHOOSE n \in 1..Len(rest) :
                  rest[n] = "/" /\ \A m \in 1..(n - 1) : rest[m] # "/"
       IN  prefix \o SubSeq(rest, 1, n)

\* list({prefix, delimiter: '/'}): objects and delimited prefixes of the
\* first page, both counted against the page limit, in key order
R2ListDelimited(st, prefix, limit) ==
  LET entries == {DelimitedEntry(k, prefix) : k \in {k \in DOMAIN st : StartsWith(k, prefix)}}
      sorted  == SortKeys(entries)
      n       == IF Len(sorted) < limit THEN Len(sorted) ELSE limit
      page    == SubSeq(sorted, 1, n)
      IsPrefixEntry(x) == x[Len(x)] = "/"
      IsObjectEntry(x) == x[Len(x)] # "/"
  IN  [objects           |-> SelectSeq(page, IsObjectEntry),
       delimitedPrefixes |-> SelectSeq(page, IsPrefixEntry),
       truncated         |-> Len(sorted) > n]

\* ------------------------------------------------------------------------
\* Authentication
\* ------------------------------------------------------------------------
MAVEN_PUBLISH_USERNAME == <<"maven">>
MAVEN_PUBLISH_PASSWORD == <<"secret">>

\* atob on the base64 tokens the requests carry
\* atob on the tokens that are base64; on any other token atob throws
Atob == ("bWF2ZW46c2VjcmV0" :> <<"maven", ":", "secret">>) @@
        ("bWF2ZW46d3Jvbmc=" :> <<"maven", ":", "wrong">>) @@
        ("bWF2ZW4=" :> <<"maven">>) @@
        ("bWF2ZW46c2VjcmV0OmV4dHJh" :> <<"maven", ":", "secret", ":", "extra">>) @@
        ("bWF2ZW46c2VjcmV0eA==" :> <<"maven", ":", "secret", "x">>) @@
        ("bWF2ZW46c2U6Y3JldA==" :> <<"maven", ":", "se", ":", "cret">>) @@
        ("" :> <<>>)

NoHeader == <<>>
GoodAuth == <<"Basic", " ", "bWF2ZW46c2VjcmV0">>
BadAuth == <<"Basic", " ", "bWF2ZW46d3Jvbmc=">>
BearerAuth == <<"Bearer", " ", "bWF2ZW46c2VjcmV0">>
NoSeparatorAuth == <<"Basic", " ", "bWF2ZW4=">>
EmptyTokenAuth == <<"Basic", " ">>
NotBase64Auth == <<"Basic", " ", "!!!">>
ExtraFieldAuth == <<"Basic", " ", "bWF2ZW46c2VjcmV0OmV4dHJh">>
LongerPasswordAuth == <<"Basic", " ", "bWF2ZW46c2VjcmV0eA==">>
ColonPasswordAuth == <<"Basic", " ", "bWF2ZW46c2U6Y3JldA==">>

\* authHeader.substring(6)
TokenOf(authHeader) ==
  LET token == DropPrefix(authHeader, <<"Basic", " ">>) IN
  IF token = <<>> THEN "" ELSE token[1]

\* env: the bindings of the worker; an unset variable is the empty text
ConfiguredEnv ==
  [MAVEN_PUBLISH_USERNAME |-> MAVEN_PUBLISH_USERNAME,
   MAVEN_PUBLISH_PASSWORD |-> MAVEN_PUBLISH_PASSWORD]

\* A binding whose password holds a colon
ColonPasswordEnv == [ConfiguredEnv EXCEPT !.MAVEN_PUBLISH_PASSWORD = <<"se", ":", "cret">>]

Envs ==
  { ConfiguredEnv,
    [ConfiguredEnv EXCEPT !.MAVEN_PUBLISH_USERNAME = <<>>],
    [ConfiguredEnv EXCEPT !.MAVEN_PUBLISH_PASSWORD = <<>>],
    [MAVEN_PUBLISH_USERNAME |-> <<>>, MAVEN_PUBLISH_PASSWORD |-> <<>>] }

\* Variant: only the user name is compared
validateBasicAuth_UsernameOnly(authHeader, env) ==
  IF authHeader = NoHeader \/ ~StartsWith(authHeader, <<"Basic", " ">>) THEN FALSE
  ELSE IF env.MAVEN_PUBLISH_USERNAME = <<>> \/ env.MAVEN_PUBLISH_PASSWORD = <<>> THEN FALSE
  ELSE LET token   == TokenOf(authHeader)
           decoded == Atob[token]
           parts   == Split(decoded, ":")
       IN  parts[1] = env.MAVEN_PUBLISH_USERNAME

\* The result of validateBasicAuth when atob(token) returns
validateBasicAuth(authHeader, env) ==
  IF authHeader = NoHeader \/ ~StartsWith(authHeader, <<"Basic", " ">>) THEN FALSE
  ELSE IF env.MAVEN_PUBLISH_USERNAME = <<>> \/ env.MAVEN_PUBLISH_PASSWORD = <<>> THEN FALSE
  ELSE LET token   == TokenOf(authHeader)
           decoded == Atob[token]
           parts   == Split(decoded, ":")
       IN  /\ parts[1] = env.MAVEN_PUBLISH_USERNAME
           /\ Len(parts) >= 2
           /\ parts[2] = env.MAVEN_PUBLISH_PASSWORD

\* validateBasicAuth throws: atob(token) is reached, with a Basic header and
\* both credentials configured, and the token is not base64
AtobThrows(authHeader, env) ==
  /\ authHeader # NoHeader /\ StartsWith(authHeader, <<"Basic", " ">>)
  /\ env.MAVEN_PUBLISH_USERNAME # <<>> /\ env.MAVEN_PUBLISH_PASSWORD # <<>>
  /\ TokenOf(authHeader) \notin DOMAIN Atob

\* ------------------------------------------------------------------------
\* JavaScript values and the XML round trip (fast-xml-parser)
\* ------------------------------------------------------------------------
Str(text) == [t |-> "string", v |-> text]
Num(text) == [t |-> "number", v |-> text]   \* v: the decimal form String(n)
Undefined == [t |-> "undefined", v |-> <<>>]

\* a === b
StrictEquals(a, b) == a.t = b.t /\ a.v = b.v

\* Tokens made of decimal digits only
dateToken == "20250121"
timeTokens == <<"143050", "143051", "143052", "143053">>
DigitTokens ==
  {"0", "1", "2", "3", "4", "5", "10", dateToken} \cup {timeTokens[n] : n \in 1..Len(timeTokens)}

IntOf ==
  ("0" :> 0) @@ ("1" :> 1) @@ ("2" :> 2) @@ ("3" :> 3) @@ ("4" :> 4) @@ ("5" :> 5) @@
  ("10" :> 10)
TextOf == <<"1", "2", "3", "4", "5">>

\* The digits of a fraction without its trailing zeros
TrimTrailingZeros(tok) ==
  IF tok = "0" THEN "" ELSE IF tok = "143050" THEN "14305" ELSE IF tok = "10" THEN "1" ELSE tok

\* strnum's numeric pattern: digits, optionally a point followed by digits
IsNumericText(text) ==
  /\ Len(text) > 0
  /\ \A n \in 1..Len(text) : text[n] \in DigitTokens \cup {"."}
  /\ Cardinality({n \in 1..Len(text) : text[n] = "."}) <= 1
  /\ text[Len(text)] # "."

\* String(Number(text)) for a numeric text
CanonicalNumber(text) ==
  IF \A n \in 1..Len(text) : text[n] # "." THEN text
  ELSE LET frac == TrimTrailingZeros(text[Len(text)]) IN
       IF frac = "" THEN SubSeq(text, 1, Len(text) - 2)
       ELSE SubSeq(text, 1, Len(text) - 1) \o <<frac>>

\* XMLParser with the default parseTagValue: a text node that looks like a
\* number becomes a number, any other text node stays a string
ParseTagValue(text) ==
  IF IsNumericText(text) THEN Num(CanonicalNumber(text)) ELSE Str(text)

\* XMLBuilder, and template literals: the text of a value
TextOfValue(val) == val.v

\* n + 1 on a number holding a small integer
PlusOne(val) == Num(<<TextOf[IntOf[val.v[1]] + 1]>>)

\* The maven-metadata.xml document as text: one field per tag
NoDoc ==
  [groupId |-> <<>>, artifactId |-> <<>>, version |-> <<>>, timestamp |-> <<>>,
   buildNumber |-> <<>>, lastUpdated |-> <<>>, snapshotVersions |-> <<>>,
   versions |-> <<>>, latest |-> <<>>, release |-> <<>>]

NoSnapshotMetadata == [timestamp |-> Undefined, buildNumber |-> Undefined]

NoCoords == [groupPath |-> <<>>, artifactId |-> <<>>, version |-> <<>>, fileName |-> <<>>]

\* ------------------------------------------------------------------------
\* Handler instances: one record per request being handled.  pc is the
\* await the handler is suspended at.
\* ------------------------------------------------------------------------
NoReq ==
  [method |-> "", path |-> <<>>, query |-> <<>>, group |-> <<>>, artifact |-> <<>>,
   version |-> <<>>, auth |-> NoHeader, body |-> ""]

Idle ==
  [pc |-> "idle", route |-> "", req |-> NoReq, env |-> ConfiguredEnv, key |-> <<>>,
   status |-> 0, headers |-> "", body |-> "", data |-> <<>>, pending |-> {},
   failed |-> FALSE,
   prefix |-> <<>>, root |-> 0, cursor |-> <<>>, truncated |-> FALSE,
   list |-> [objects |-> <<>>, truncated |-> FALSE, cursor |-> <<>>],
   deleted |-> <<>>, errors |-> <<>>, store0 |-> <<>>,
   coords |-> NoCoords, newTimestamp |-> <<>>, snapshotMetadata |-> NoSnapshotMetadata,
   snapshotVersions |-> <<>>, xml |-> NoDoc]

Respond(hd, status, body) == [hd EXCEPT !.pc = "done", !.status = status, !.body = body]

unauthorizedResponse(hd) == Respond(hd, 401, "Authentication required")

errorResponse(hd, message, status) == Respond(hd, status, message)

\* An exception leaves fetch: the promise it returned rejects and no Response
\* of the worker is sent
Throw(hd) == [hd EXCEPT !.pc = "thrown"]

\* The catch of fetch around the /api routes
CatchApiError(hd) == errorResponse(hd, "Internal server error", 500)

\* ------------------------------------------------------------------------
\* Release publishing (final worker): PUT /releases/...
\* ------------------------------------------------------------------------
validExtensions ==
  << <<".", "jar">>, <<".", "pom">>, <<".", "module">>, <<".", "xml">>, <<".", "sha1">>,
     <<".", "sha256">>, <<".", "sha512">>, <<".", "md5">>, <<".", "asc">> >>

hasValidExtension(fileName) ==
  \E i \in 1..Len(validExtensions) : EndsWith(fileName, validExtensions[i])

\* Variants of the guard: no check at all; the narrower exemption list of
\* the earlier handler; signatures exempted as well
NeedsExistenceCheck_Never(fileName) == FALSE

NeedsExistenceCheck_Sha1Sha256Only(fileName) ==
  /\ ~EndsWith(fileName, <<".", "sha1">>)
  /\ ~EndsWith(fileName, <<".", "sha256">>)
  /\ ~Includes(fileName, <<"maven", "-", "metadata">>)

NeedsExistenceCheck_AscExempt(fileName) ==
  /\ ~EndsWith(fileName, <<".", "sha1">>)
  /\ ~EndsWith(fileName, <<".", "sha256">>)
  /\ ~EndsWith(fileName, <<".", "sha512">>)
  /\ ~EndsWith(fileName, <<".", "md5">>)
  /\ ~EndsWith(fileName, <<".", "asc">>)
  /\ ~Includes(fileName, <<"maven", "-", "metadata">>)

\* The condition guarding the immutability check of handleReleasePut
NeedsExistenceCheck(fileName) ==
  /\ ~EndsWith(fileName, <<".", "sha1">>)
  /\ ~EndsWith(fileName, <<".", "sha256">>)
  /\ ~EndsWith(fileName, <<".", "sha512">>)
  /\ ~EndsWith(fileName, <<".", "md5">>)
  /\ ~Includes(fileName, <<"maven", "-", "metadata">>)

mavenMetadataXml == <<"maven", "-", "metadata", ".", "xml">>

\* Variant: the version directory is left out of the key
VersionFileKey_NoVersion(groupPath, artifactId, version, fileName) ==
  groupPath \o <<"/">> \o artifactId \o <<"/">> \o fileName

\* `${groupPath}/${artifactId}/${version}/${fileName}`
VersionFileKey(groupPath, artifactId, version, fileName) ==
  groupPath \o <<"/">> \o artifactId \o <<"/">> \o version \o <<"/">> \o fileName

\* handleReleasePut up to its first await
handleReleasePut(hd) ==
  LET pathname == hd.req.path IN
  IF AtobThrows(hd.req.auth, hd.env) THEN Throw(hd)
  ELSE IF ~validateBasicAuth(hd.req.auth, hd.env) THEN unauthorizedResponse(hd)
  ELSE IF ~StartsWith(pathname, <<"/", "releases", "/">>)
  THEN errorResponse(hd, "Invalid release path", 400)
  ELSE
    LET mavenPath == DropPrefix(pathname, <<"/", "releases", "/">>)
        pathParts == Split(mavenPath, "/")
    IN
    IF Len(pathParts) < 4 THEN errorResponse(hd, "Invalid Maven path format", 400)
    ELSE
      LET versionIndex == Len(pathParts) - 1
          fileName     == pathParts[Len(pathParts)]
          version      == pathParts[versionIndex]
          artifactId   == pathParts[versionIndex - 1]
          groupParts   == SubSeq(pathParts, 1, versionIndex - 2)
          groupPath    == Join(groupParts, "/")
          r2Key        == VersionFileKey(groupPath, artifactId, version, fileName)
      IN
      IF ~hasValidExtension(fileName) THEN errorResponse(hd, "Invalid file type", 400)
      ELSE IF NeedsExistenceCheck(fileName)
      THEN [hd EXCEPT !.pc = "head", !.key = r2Key]
      ELSE [hd EXCEPT !.pc = "put", !.key = r2Key]

\* ------------------------------------------------------------------------
\* Snapshot publishing (final worker): PUT /snapshots/...
\* ------------------------------------------------------------------------
\* Variant: no artifact-level special case
IsArtifactLevelMetadata_Never(pathParts) == FALSE

\* pathParts.length === 3 && fileName === 'maven-metadata.xml'
IsArtifactLevelMetadata(pathParts) ==
  Len(pathParts) = 3 /\ pathParts[Len(pathParts)] = mavenMetadataXml

\* Variant: metadata files are held to the -SNAPSHOT suffix as well
SnapshotVersionRejected_MetadataToo(version, fileName) ==
  ~EndsWith(version, <<"-", "SNAPSHOT">>)

\* !version.endsWith('-SNAPSHOT') && !fileName.includes('maven-metadata')
SnapshotVersionRejected(version, fileName) ==
  /\ ~EndsWith(version, <<"-", "SNAPSHOT">>)
  /\ ~Includes(fileName, <<"maven", "-", "metadata">>)

handleSnapshotPut(hd) ==
  LET pathname == hd.req.path IN
  IF AtobThrows(hd.req.auth, hd.env) THEN Throw(hd)
  ELSE IF ~validateBasicAuth(hd.req.auth, hd.env) THEN unauthorizedResponse(hd)
  ELSE IF ~StartsWith(pathname, <<"/", "snapshots", "/">>)
  THEN errorResponse(hd, "Invalid snapshot path", 400)
  ELSE
    LET mavenPath == DropPrefix(pathname, <<"/", "snapshots", "/">>)
        pathParts == Split(mavenPath, "/")
        n         == Len(pathParts)
    IN
    IF n < 3 THEN errorResponse(hd, "Invalid path format", 400)
    ELSE
      LET fileName == pathParts[n] IN
      IF IsArtifactLevelMetadata(pathParts)
      THEN LET artifactId == pathParts[n - 1]
               groupPath  == Join(SubSeq(pathParts, 1, n - 2), "/")
           IN  [hd EXCEPT !.pc = "put",
                          !.key = groupPath \o <<"/">> \o artifactId \o <<"/">> \o fileName]
      ELSE IF n < 4 THEN errorResponse(hd, "Invalid path format", 400)
      ELSE
        LET version    == pathParts[n - 1]
            artifactId == pathParts[n - 2]
            groupPath  == Join(SubSeq(pathParts, 1, n - 3), "/")
        IN
        IF SnapshotVersionRejected(version, fileName)
        THEN errorResponse(hd, "Version must end with -SNAPSHOT", 400)
        ELSE [hd EXCEPT !.pc = "put",
                        !.key = VersionFileKey(groupPath, artifactId, version, fileName)]

\* ------------------------------------------------------------------------
\* Snapshot publishing (earlier worker): the server computes the
\* timestamped file name and rewrites the version-level maven-metadata.xml
\* ------------------------------------------------------------------------
TicksPerSecond == 2

\* formatTimestamp(new Date()): yyyyMMdd.HHmmss of the second the tick is in
formatTimestamp(date) == <<dateToken, ".", timeTokens[(date \div TicksPerSecond) + 1]>>

timestampedValidExtensions ==
  << <<".", "jar">>, <<".", "pom">>, <<".", "module">>, <<".", "xml">>, <<".", "sha1">>,
     <<".", "sha256">>, <<".", "asc">> >>

LastIndexOf(text, tok) ==
  IF \A n \in 1..Len(text) : text[n] # tok THEN 0
  ELSE CHOOSE n \in 1..Len(text) : text[n] = tok /\ \A m \in (n + 1)..Len(text) : text[m] # tok

parseFileName(fileName) ==
  LET lastDotIndex == LastIndexOf(fileName, ".") IN
  IF lastDotIndex = 0 THEN [baseFileName |-> fileName, extension |-> <<>>]
  ELSE [baseFileName |-> SubSeq(fileName, 1, lastDotIndex - 1),
        extension    |-> SubSeq(fileName, lastDotIndex + 1, Len(fileName))]

\* version.substring(0, version.length - '-SNAPSHOT'.length)
BaseVersion(version) == SubSeq(version, 1, Len(version) - 2)

MetadataKey(c) ==
  VersionFileKey(c.groupPath, c.artifactId, c.version, mavenMetadataXml)

\* `${baseFileName}-${baseVersion}-${timestamp}-${buildNumber}.${extension}`
TimestampedFileName(c, sm) ==
  parseFileName(c.fileName).baseFileName \o <<"-">> \o BaseVersion(c.version) \o <<"-">>
    \o TextOfValue(sm.timestamp) \o <<"-">> \o TextOfValue(sm.buildNumber) \o <<".">>
    \o parseFileName(c.fileName).extension

\* handleSnapshotPut of the earlier worker up to its first await
handleSnapshotPutTimestamped(hd) ==
  LET pathname == hd.req.path IN
  IF AtobThrows(hd.req.auth, hd.env) THEN Throw(hd)
  ELSE IF ~validateBasicAuth(hd.req.auth, hd.env) THEN unauthorizedResponse(hd)
  ELSE IF ~StartsWith(pathname, <<"/", "snapshots", "/">>)
  THEN errorResponse(hd, "Invalid snapshot path", 400)
  ELSE
    LET mavenPath == DropPrefix(pathname, <<"/", "snapshots", "/">>)
        pathParts == Split(mavenPath, "/")
        n         == Len(pathParts)
    IN
    IF n < 4 THEN errorResponse(hd, "Invalid path format", 400)
    ELSE
      LET c == [fileName   |-> pathParts[n],
                version    |-> pathParts[n - 1],
                artifactId |-> pathParts[n - 2],
                groupPath  |-> Join(SubSeq(pathParts, 1, n - 3), "/")]
      IN
      IF ~EndsWith(c.version, <<"-", "SNAPSHOT">>)
      THEN errorResponse(hd, "Version must end with -SNAPSHOT", 400)
      ELSE IF ~\E x \in 1..Len(timestampedValidExtensions) :
                 EndsWith(c.fileName, timestampedValidExtensions[x])
      THEN errorResponse(hd, "Invalid file type", 400)
      ELSE [hd EXCEPT !.pc = "readMetadata", !.coords = c]

\* existingTimestamp === newTimestamp
SameTimestamp(existingTimestamp, newTimestamp) ==
  StrictEquals(existingTimestamp, Str(newTimestamp))

\* getOrGenerateSnapshotMetadata, given what R2.get(metadataKey) returned
getOrGenerateSnapshotMetadata(st, metadataKey, date) ==
  IF metadataKey \in DOMAIN st
  THEN LET existingTimestamp   == ParseTagValue(st[metadataKey].timestamp)
           existingBuildNumber == ParseTagValue(st[metadataKey].buildNumber)
           newTimestamp        == formatTimestamp(date)
       IN  IF SameTimestamp(existingTimestamp, newTimestamp)
           THEN [timestamp |-> existingTimestamp, buildNumber |-> PlusOne(existingBuildNumber)]
           ELSE [timestamp |-> Str(newTimestamp), buildNumber |-> Num(<<"1">>)]
  ELSE [timestamp |-> Str(formatTimestamp(date)), buildNumber |-> Num(<<"1">>)]

\* parsed.metadata?.versioning?.snapshotVersions?.snapshotVersion as an array
ParseSnapshotVersions(doc) ==
  [n \in 1..Len(doc.snapshotVersions) |->
     [extension  |-> ParseTagValue(doc.snapshotVersions[n].extension),
      classifier |-> Undefined,
      value      |-> ParseTagValue(doc.snapshotVersions[n].value),
      updated    |-> ParseTagValue(doc.snapshotVersions[n].updated)]]

\* snapshotVersions.findIndex(...), 0 when no entry matches
FindSnapshotVersion(snapshotVersions, extension) ==
  LET matches(sv) ==
        /\ StrictEquals(sv.extension, Str(extension))
        /\ StrictEquals(sv.classifier,
                        IF extension = <<"jar">> THEN Undefined ELSE Str(extension))
  IN  IF \E n \in 1..Len(snapshotVersions) : matches(snapshotVersions[n])
      THEN CHOOSE n \in 1..Len(snapshotVersions) :
             /\ matches(snapshotVersions[n])
             /\ \A m \in 1..(n - 1) : ~matches(snapshotVersions[m])
      ELSE 0

\* Variant: an entry is only ever replaced, never added
UpsertSnapshotVersion_ReplaceOnly(snapshotVersions, extension, timestampedValue, lastUpdated) ==
  LET entry == [extension  |-> Str(extension), classifier |-> Undefined,
                value      |-> Str(timestampedValue), updated |-> Str(lastUpdated)]
      index == FindSnapshotVersion(snapshotVersions, extension)
  IN  IF index > 0 THEN [snapshotVersions EXCEPT ![index] = entry]
      ELSE snapshotVersions

\* The add-or-update of this file's snapshotVersion entry
UpsertSnapshotVersion(snapshotVersions, extension, timestampedValue, lastUpdated) ==
  LET entry == [extension  |-> Str(extension), classifier |-> Undefined,
                value      |-> Str(timestampedValue), updated |-> Str(lastUpdated)]
      index == FindSnapshotVersion(snapshotVersions, extension)
  IN  IF index > 0 THEN [snapshotVersions EXCEPT ![index] = entry]
      ELSE Append(snapshotVersions, entry)

\* `${baseVersion}-${timestamp}-${buildNumber}`
TimestampedValue(c, sm) ==
  BaseVersion(c.version) \o <<"-">> \o TextOfValue(sm.timestamp) \o <<"-">>
    \o TextOfValue(sm.buildNumber)

\* Variant: the build number written is the number of entries
BuildMetadataXml_EntryCount(c, sm, snapshotVersions, lastUpdated) ==
  [groupId     |-> [n \in 1..Len(c.groupPath) |->
                      IF c.groupPath[n] = "/" THEN "." ELSE c.groupPath[n]],
   artifactId  |-> c.artifactId,
   version     |-> c.version,
   timestamp   |-> TextOfValue(sm.timestamp),
   buildNumber |-> <<TextOf[Len(snapshotVersions)]>>,
   lastUpdated |-> lastUpdated,
   snapshotVersions |->
     [n \in 1..Len(snapshotVersions) |->
        [extension |-> TextOfValue(snapshotVersions[n].extension),
         value     |-> TextOfValue(snapshotVersions[n].value),
         updated   |-> TextOfValue(snapshotVersions[n].updated)]],
   versions    |-> [n \in 1..Len(snapshotVersions) |-> TextOfValue(snapshotVersions[n].value)],
   latest      |-> c.version,
   release     |-> c.version]

\* builder.build(metadata)
BuildMetadataXml(c, sm, snapshotVersions, lastUpdated) ==
  [groupId     |-> [n \in 1..Len(c.groupPath) |->
                      IF c.groupPath[n] = "/" THEN "." ELSE c.groupPath[n]],
   artifactId  |-> c.artifactId,
   version     |-> c.version,
   timestamp   |-> TextOfValue(sm.timestamp),
   buildNumber |-> TextOfValue(sm.buildNumber),
   lastUpdated |-> lastUpdated,
   snapshotVersions |->
     [n \in 1..Len(snapshotVersions) |->
        [extension |-> TextOfValue(snapshotVersions[n].extension),
         value     |-> TextOfValue(snapshotVersions[n].value),
         updated   |-> TextOfValue(snapshotVersions[n].updated)]],
   versions    |-> [n \in 1..Len(snapshotVersions) |-> TextOfValue(snapshotVersions[n].value)],
   latest      |-> c.version,
   release     |-> c.version]

\* The /snapshots/ route of the earlier worker's fetch
fetchSnapshotsRoute(req, st) ==
  LET hd == [Idle EXCEPT !.req = req, !.store0 = st, !.route = "snapshotPutTimestamped"] IN
  IF req.method = "OPTIONS" THEN [Respond(hd, 204, "") EXCEPT !.headers = "corsHeaders"]
  ELSE IF req.method # "PUT" THEN errorResponse(hd, "Method not allowed", 405)
  ELSE handleSnapshotPutTimestamped(hd)

\* ------------------------------------------------------------------------
\* Release publishing checked by version: PUT /publish/... and the earlier
\* PUT /releases/...
\* ------------------------------------------------------------------------
\* Variant: only primary files count as the version being there
checkVersionExists_PrimaryOnly(st, prefix) ==
  \E k \in DOMAIN st :
    /\ StartsWith(k, prefix)
    /\ LET name == Split(k, "/")[Len(Split(k, "/"))] IN
       /\ ~EndsWith(name, <<".", "sha1">>)
       /\ ~EndsWith(name, <<".", "sha256">>)
       /\ ~Includes(name, <<"maven", "-", "metadata">>)

\* env.R2.list({ prefix, limit: 1 }) holds an object
checkVersionExists(st, prefix) == Len(R2List(st, prefix, <<>>, 1).objects) > 0

\* The condition guarding the version check
NeedsVersionCheck(fileName) ==
  /\ ~EndsWith(fileName, <<".", "sha1">>)
  /\ ~EndsWith(fileName, <<".", "sha256">>)
  /\ ~Includes(fileName, <<"maven", "-", "metadata">>)

\* The handler up to its first await; root is the route root it is bound to
PublishPutByVersion(hd, root) ==
  LET pathname == hd.req.path IN
  IF AtobThrows(hd.req.auth, hd.env) THEN Throw(hd)
  ELSE IF ~validateBasicAuth(hd.req.auth, hd.env) THEN unauthorizedResponse(hd)
  ELSE IF ~StartsWith(pathname, <<"/", root, "/">>)
  THEN errorResponse(hd, "Invalid publish path", 400)
  ELSE
    LET mavenPath == DropPrefix(pathname, <<"/", root, "/">>)
        pathParts == Split(mavenPath, "/")
    IN
    IF Len(pathParts) < 4 THEN errorResponse(hd, "Invalid Maven path format", 400)
    ELSE
      LET versionIndex == Len(pathParts) - 1
          fileName     == pathParts[Len(pathParts)]
          version      == pathParts[versionIndex]
          artifactId   == pathParts[versionIndex - 1]
          groupPath    == Join(SubSeq(pathParts, 1, versionIndex - 2), "/")
          r2Key        == VersionFileKey(groupPath, artifactId, version, fileName)
          prefix       == groupPath \o <<"/">> \o artifactId \o <<"/">> \o version \o <<"/">>
      IN
      IF ~\E x \in 1..Len(timestampedValidExtensions) :
            EndsWith(fileName, timestampedValidExtensions[x])
      THEN errorResponse(hd, "Invalid file type", 400)
      ELSE IF NeedsVersionCheck(fileName)
      THEN [hd EXCEPT !.pc = "check", !.key = r2Key, !.prefix = prefix]
      ELSE [hd EXCEPT !.pc = "put", !.key = r2Key]

handlePublishPut(hd) == PublishPutByVersion(hd, "publish")

handleReleasePutByVersion(hd) == PublishPutByVersion(hd, "releases")

\* fetch of the two workers, up to the upload routes
fetchPublishRoutes(req, env, st) ==
  LET hd == [Idle EXCEPT !.req = req, !.env = env, !.store0 = st, !.route = "publishPut"] IN
  IF req.method = "OPTIONS" THEN [Respond(hd, 204, "") EXCEPT !.headers = "corsHeaders"]
  ELSE IF StartsWith(req.path, <<"/", "publish", "/">>)
  THEN IF req.method # "PUT" THEN errorResponse(hd, "Method not allowed", 405)
       ELSE handlePublishPut(hd)
  ELSE IF StartsWith(req.path, <<"/", "releases", "/">>)
  THEN IF req.method # "PUT" THEN errorResponse(hd, "Method not allowed", 405)
       ELSE handleReleasePutByVersion(hd)
  ELSE IF req.method # "GET" THEN errorResponse(hd, "Method not allowed", 405)
  ELSE errorResponse(hd, "Not found", 404)

\* ------------------------------------------------------------------------
\* Artifact passthrough: GET /releases/... and GET /snapshots/...
\* ------------------------------------------------------------------------
\* Variant: only the leading slash is dropped, the route root stays in the key
handleArtifactGet_KeepRoot(hd) ==
  [hd EXCEPT !.route = "get", !.pc = "get", !.key = DropPrefix(hd.req.path, <<"/">>)]

\* Variant: the snapshots root keeps a namespace of its own
handleArtifactGet_SnapshotsApart(hd) ==
  LET pathname == hd.req.path IN
  [hd EXCEPT !.route = "get", !.pc = "get",
             !.key = IF StartsWith(pathname, <<"/", "releases", "/">>)
                     THEN DropPrefix(pathname, <<"/", "releases", "/">>)
                     ELSE DropPrefix(pathname, <<"/">>)]

handleArtifactGet(hd) ==
  LET pathname == hd.req.path
      prefix   == IF StartsWith(pathname, <<"/", "releases", "/">>)
                  THEN <<"/", "releases", "/">>
                  ELSE <<"/", "snapshots", "/">>
  IN  [hd EXCEPT !.route = "get", !.pc = "get", !.key = DropPrefix(pathname, prefix)]

\* ------------------------------------------------------------------------
\* Purge: DELETE /api/purge?prefix=group.artifact
\* ------------------------------------------------------------------------
roots == << <<"releases">>, <<"snapshots">> >>

\* `${root}/${pathPrefix}/`
\* Variant: the prefix is not closed with a slash
FullPrefix_NoSlash(root, pathPrefix) == root \o <<"/">> \o pathPrefix

FullPrefix(root, pathPrefix) == root \o <<"/">> \o pathPrefix \o <<"/">>

handlePurge(hd) ==
  IF AtobThrows(hd.req.auth, hd.env) THEN Throw(hd)
  ELSE IF ~validateBasicAuth(hd.req.auth, hd.env) THEN unauthorizedResponse(hd)
  ELSE IF hd.req.query = <<>> THEN errorResponse(hd, "Missing prefix parameter", 400)
  ELSE
    LET pathPrefix == ReplaceDots(hd.req.query) IN
    IF CharLen(pathPrefix) < 3 THEN errorResponse(hd, "Prefix too short", 400)
    ELSE [hd EXCEPT !.pc = "list", !.prefix = pathPrefix,
                    !.root = 1, !.truncated = TRUE, !.cursor = <<>>,
                    !.deleted = <<>>, !.errors = <<>>]

\* ------------------------------------------------------------------------
\* Catalog reads: GET /api/groups, /api/artifacts, /api/versions, /api/files
\* and /api/latest
\* ------------------------------------------------------------------------
jsonResponse(hd, data) == [Respond(hd, 200, "json") EXCEPT !.data = data]

\* handleGetArtifacts up to its first await
handleGetArtifacts(hd) ==
  IF hd.req.group = <<>> THEN errorResponse(hd, "Missing required parameter: group", 400)
  ELSE [hd EXCEPT !.pc = "list", !.prefix = ReplaceDots(hd.req.group)]

\* prefix.replace(/\/$/, '').split('/').pop()
PrefixName(prefix) ==
  LET parts == Split(SubSeq(prefix, 1, Len(prefix) - 1), "/") IN parts[Len(parts)]

\* The names the map callback keeps: not empty, not starting with "."
KeptNames(delimitedPrefixes) ==
  LET names == [n \in 1..Len(delimitedPrefixes) |-> PrefixName(delimitedPrefixes[n])]
      Kept(name) == name # <<>> /\ name[1] # "."
  IN  SelectSeq(names, Kept)

\* `${groupPath}/${name}/maven-metadata.xml`
ArtifactMetadataPathOf(groupPath, name) ==
  groupPath \o <<"/">> \o name \o <<"/">> \o mavenMetadataXml

\* handleGetVersions up to its first await
handleGetVersions(hd) ==
  IF hd.req.group = <<>> \/ hd.req.artifact = <<>>
  THEN errorResponse(hd, "Missing required parameters: group, artifact", 400)
  ELSE [hd EXCEPT !.pc = "get",
                  !.key = ArtifactMetadataPathOf(ReplaceDots(hd.req.group), hd.req.artifact)]

\* A tag that may be missing from the document
ParseOptionalTag(text) == IF text = <<>> THEN Undefined ELSE ParseTagValue(text)

\* !value
IsFalsy(val) ==
  \/ val.t = "undefined"
  \/ val.t = "string" /\ val.v = <<>>
  \/ val.t = "number" /\ val.v = <<"0">>

\* a || b
OrElse(a, b) == IF IsFalsy(a) THEN b ELSE a

\* Number(part) || 0 for one dot-separated part of a version string
NumberOrZero(part) ==
  IF Len(part) = 1 /\ part[1] \in DOMAIN IntOf THEN IntOf[part[1]] ELSE 0

\* partsA[i] || 0, for i counted from 1
PartOrZero(parts, n) == IF n <= Len(parts) THEN NumberOrZero(parts[n]) ELSE 0

\* The comparator of versionsArray.sort on two strings: numB - numA at the
\* first position where the numbers differ, 0 when none does
CompareVersions(a, b) ==
  LET partsA == Split(a.v, ".")
      partsB == Split(b.v, ".")
      max    == IF Len(partsA) > Len(partsB) THEN Len(partsA) ELSE Len(partsB)
      differ == {n \in 1..max : PartOrZero(partsA, n) # PartOrZero(partsB, n)}
  IN  IF differ = {} THEN 0
      ELSE LET n == CHOOSE n \in differ : \A m \in differ : n <= m
           IN  PartOrZero(partsB, n) - PartOrZero(partsA, n)

\* Array.prototype.sort with that comparator: a stable sort
RECURSIVE InsertVersion(_, _)
InsertVersion(sorted, x) ==
  IF Len(sorted) = 0 THEN <<x>>
  ELSE IF CompareVersions(sorted[Len(sorted)], x) <= 0 THEN Append(sorted, x)
  ELSE Append(InsertVersion(SubSeq(sorted, 1, Len(sorted) - 1), x), sorted[Len(sorted)])

RECURSIVE SortVersions(_)
SortVersions(versionsArray) ==
  IF Len(versionsArray) = 0 THEN <<>>
  ELSE InsertVersion(SortVersions(SubSeq(versionsArray, 1, Len(versionsArray) - 1)),
                     versionsArray[Len(versionsArray)])

\* Number(part) in the page's compareVersions: NaN stands for not-a-number
NaN == -1

NumberOf(part) ==
  IF part = <<>> THEN 0
  ELSE IF Len(part) = 1 /\ part[1] \in DOMAIN IntOf THEN IntOf[part[1]] ELSE NaN

\* partsA[i] ?? 0, for i counted from 1
PartOrDefault(parts, n) == IF n <= Len(parts) THEN NumberOf(parts[n]) ELSE 0

\* compareVersions of the artifact page: the text before "+" is split at the
\* dots; numA - numB at the first position where numA !== numB
compareVersions(a, b) ==
  LET partsA == Split(Split(a, "+")[1], ".")
      partsB == Split(Split(b, "+")[1], ".")
      max    == IF Len(partsA) > Len(partsB) THEN Len(partsA) ELSE Len(partsB)
      differ == {n \in 1..max :
                   \/ PartOrDefault(partsA, n) # PartOrDefault(partsB, n)
                   \/ PartOrDefault(partsA, n) = NaN}
  IN  IF differ = {} THEN 0
      ELSE LET n == CHOOSE n \in differ : \A m \in differ : n <= m
           IN  IF PartOrDefault(partsA, n) = NaN \/ PartOrDefault(partsB, n) = NaN THEN NaN
               ELSE PartOrDefault(partsA, n) - PartOrDefault(partsB, n)

\* [...versions].sort((a, b) => compareVersions(b.version, a.version)): a
\* stable sort; a comparator result of NaN counts as 0
RECURSIVE InsertDescending(_, _)
InsertDescending(sorted, x) ==
  LET last == sorted[Len(sorted)]
      c    == compareVersions(x.version.v, last.version.v)
  IN  IF Len(sorted) = 0 THEN <<x>>
      ELSE IF c = NaN \/ c <= 0 THEN Append(sorted, x)
      ELSE Append(InsertDescending(SubSeq(sorted, 1, Len(sorted) - 1), x), last)

RECURSIVE SortDescending(_)
SortDescending(versions) ==
  IF Len(versions) = 0 THEN <<>>
  ELSE InsertDescending(SortDescending(SubSeq(versions, 1, Len(versions) - 1)),
                        versions[Len(versions)])

\* handleGetVersions after R2.get returned the object whose text is doc
VersionsResponse(hd, doc) ==
  LET versionsArray == [n \in 1..Len(doc.versions) |-> ParseTagValue(doc.versions[n])]
      latest        == OrElse(ParseOptionalTag(doc.latest), ParseOptionalTag(doc.release))
      release       == ParseOptionalTag(doc.release)
  IN
  IF Len(versionsArray) = 0 \/ (Len(versionsArray) = 1 /\ IsFalsy(versionsArray[1]))
  THEN errorResponse(hd, "Invalid maven-metadata.xml", 500)
  ELSE IF /\ Len(versionsArray) >= 2
          /\ \E n \in 1..Len(versionsArray) : versionsArray[n].t # "string"
  THEN \* a.split is not a function: the TypeError reaches the catch of fetch
       CatchApiError(hd)
  ELSE LET sorted == IF Len(versionsArray) >= 2 THEN SortVersions(versionsArray)
                     ELSE versionsArray
       IN  jsonResponse(hd, [n \in 1..Len(sorted) |->
                               [version |-> sorted[n],
                                latest  |-> StrictEquals(sorted[n], latest),
                                release |-> StrictEquals(sorted[n], release)]])

\* handleGetGroups up to its first await
handleGetGroups(hd) == [hd EXCEPT !.pc = "list", !.prefix = <<>>]

\* p.replace(/\/$/, '') for each delimited prefix, then the filter keeps the
\* names that are not empty and do not start with "."
KeptGroups(delimitedPrefixes) ==
  LET groups == [n \in 1..Len(delimitedPrefixes) |->
                   SubSeq(delimitedPrefixes[n], 1, Len(delimitedPrefixes[n]) - 1)]
      Kept(g) == g # <<>> /\ g[1] # "."
  IN  SelectSeq(groups, Kept)

\* `${groupPath}/${artifact}/${version}/`
VersionPrefix(groupPath, artifact, version) ==
  groupPath \o <<"/">> \o artifact \o <<"/">> \o version \o <<"/">>

\* handleGetFiles up to its first await
handleGetFiles(hd) ==
  IF hd.req.group = <<>> \/ hd.req.artifact = <<>> \/ hd.req.version = <<>>
  THEN errorResponse(hd, "Missing required parameters: group, artifact, version", 400)
  ELSE [hd EXCEPT !.pc = "list",
                  !.prefix = VersionPrefix(ReplaceDots(hd.req.group), hd.req.artifact,
                                           hd.req.version)]

\* The names of the listed objects under prefix that are not empty and do
\* not start with "."
KeptFiles(objects, prefix) ==
  LET UnderPrefix(k) == StartsWith(k, prefix)
      under == SelectSeq(objects, UnderPrefix)
      names == [n \in 1..Len(under) |-> DropPrefix(under[n], prefix)]
      Kept(name) == name # <<>> /\ name[1] # "."
  IN  SelectSeq(names, Kept)

\* handleGetLatest up to its first await
handleGetLatest(hd) ==
  IF hd.req.group = <<>> \/ hd.req.artifact = <<>>
  THEN errorResponse(hd, "Missing required parameters: group, artifact", 400)
  ELSE [hd EXCEPT !.pc = "get",
                  !.key = ArtifactMetadataPathOf(ReplaceDots(hd.req.group), hd.req.artifact)]

\* handleGetLatest after R2.get returned the object whose text is doc
LatestResponse(hd, doc) ==
  LET latest == OrElse(ParseOptionalTag(doc.latest), ParseOptionalTag(doc.release)) IN
  IF IsFalsy(latest) THEN errorResponse(hd, "Could not determine latest version", 500)
  ELSE jsonResponse(hd, latest)

\* Variant: the purge route does not test the method
PurgeRoute_AnyMethod(hd) == handlePurge([hd EXCEPT !.route = "purge"])

\* Route: /api/purge (DELETE)
PurgeRoute(hd) ==
  IF hd.req.method = "DELETE" THEN handlePurge([hd EXCEPT !.route = "purge"])
  ELSE errorResponse(hd, "Method not allowed", 405)

\* ------------------------------------------------------------------------
\* fetch: the router, run up to the first await of the handler it selects
\* ------------------------------------------------------------------------
fetch(req, env, st) ==
  LET hd   == [Idle EXCEPT !.req = req, !.env = env, !.store0 = st]
      path == req.path
  IN
  IF req.method = "OPTIONS" THEN [Respond(hd, 204, "") EXCEPT !.headers = "corsHeaders"]
  ELSE IF StartsWith(path, <<"/", "releases", "/">>)
  THEN IF req.method = "PUT" THEN handleReleasePut([hd EXCEPT !.route = "releasePut"])
       ELSE IF req.method = "GET" THEN handleArtifactGet(hd)
       ELSE errorResponse(hd, "Method not allowed", 405)
  ELSE IF StartsWith(path, <<"/", "snapshots", "/">>)
  THEN IF req.method = "PUT" THEN handleSnapshotPut([hd EXCEPT !.route = "snapshotPut"])
       ELSE IF req.method = "GET" THEN handleArtifactGet(hd)
       ELSE errorResponse(hd, "Method not allowed", 405)
  ELSE IF path = <<"/", "api", "/", "purge">>
  THEN PurgeRoute(hd)
  ELSE IF req.method # "GET" THEN errorResponse(hd, "Method not allowed", 405)
  ELSE IF path = <<"/", "api", "/", "groups">>
  THEN handleGetGroups([hd EXCEPT !.route = "groups"])
  ELSE IF path = <<"/", "api", "/", "artifacts">>
  THEN handleGetArtifacts([hd EXCEPT !.route = "artifacts"])
  ELSE IF path = <<"/", "api", "/", "versions">>
  THEN handleGetVersions([hd EXCEPT !.route = "versions"])
  ELSE IF path = <<"/", "api", "/", "files">>
  THEN handleGetFiles([hd EXCEPT !.route = "files"])
  ELSE IF path = <<"/", "api", "/", "latest">>
  THEN handleGetLatest([hd EXCEPT !.route = "latest"])
  ELSE errorResponse(hd, "Not found", 404)

\* ------------------------------------------------------------------------
\* Requests
\* ------------------------------------------------------------------------
Bodies == {"b1", "b2"}

Path(segments) == Join(segments, "/")

comGroup == <<"com">>
amber == <<"amber">>
amberCommon == <<"amber", "-", "common">>
v10 == <<"1", ".", "0">>
v10Snapshot == <<"1", ".", "0", "-", "SNAPSHOT">>
amberJar == <<"amber", ".", "jar">>
amberPom == <<"amber", ".", "pom">>
amberJarSha1 == <<"amber", ".", "jar", ".", "sha1">>
amberJarMd5 == <<"amber", ".", "jar", ".", "md5">>
amberJarAsc == <<"amber", ".", "jar", ".", "asc">>
amberTxt == <<"amber", ".", "txt">>
amberSourcesJar == <<"amber", "-", "sources", ".", "jar">>
amberJavadocJar == <<"amber", "-", "javadoc", ".", "jar">>

\* Paths below the route root that the requests of the model address
ReleaseFilePaths ==
  { Path(<<comGroup, amber, v10, amberJar>>),
    Path(<<comGroup, amber, v10, amberJarSha1>>),
    Path(<<comGroup, amber, v10, amberJarMd5>>),
    Path(<<comGroup, amber, v10, amberJarAsc>>),
    Path(<<comGroup, amber, v10, mavenMetadataXml>>),
    Path(<<comGroup, amber, v10, amberTxt>>),
    Path(<<comGroup, amber, v10Snapshot, amberJar>>),
    Path(<<comGroup, amber, mavenMetadataXml>>) }

\* Paths whose group path starts with a segment named like a route root
RootedPaths ==
  { Path(<<<<"releases">>, comGroup, amber, v10, amberJar>>),
    Path(<<<<"releases">>, comGroup, amber, v10, amberPom>>),
    Path(<<<<"releases">>, comGroup, amberCommon, v10, amberJar>>),
    Path(<<<<"snapshots">>, comGroup, amber, v10Snapshot, amberJar>>) }

MavenPaths == ReleaseFilePaths \cup RootedPaths

Request(method, path, query, auth, body) ==
  [method |-> method, path |-> path, query |-> query, group |-> <<>>, artifact |-> <<>>,
   version |-> <<>>, auth |-> auth, body |-> body]

ReleasePutRequests ==
  { Request("PUT", <<"/", "releases", "/">> \o p, <<>>, a, b) :
      p \in MavenPaths, a \in {GoodAuth, NoHeader}, b \in Bodies }

SnapshotPutRequests ==
  { Request("PUT", <<"/", "snapshots", "/">> \o p, <<>>, a, b) :
      p \in MavenPaths, a \in {GoodAuth, NoHeader}, b \in Bodies }

GetRequests ==
  { Request("GET", <<"/", r, "/">> \o p, <<>>, NoHeader, "") :
      r \in {"releases", "snapshots"}, p \in MavenPaths }

OptionsRequests ==
  { Request("OPTIONS", <<"/", r, "/">> \o p, <<>>, NoHeader, "") :
      r \in {"releases"}, p \in {Path(<<comGroup, amber, v10, amberJar>>)} }

PurgeRequests ==
  { Request("DELETE", <<"/", "api", "/", "purge">>, q, a, "") :
      q \in {<<"com", ".", "amber">>, <<"a">>, <<>>}, a \in {GoodAuth, NoHeader} }

\* Smaller pools for the runs that mix routes or interleave handlers
CorePaths ==
  { Path(<<comGroup, amber, v10, amberJar>>),
    Path(<<comGroup, amber, v10, amberJarSha1>>),
    Path(<<comGroup, amber, v10Snapshot, amberJar>>) }

CoreReleasePuts ==
  { Request("PUT", <<"/", "releases", "/">> \o p, <<>>, GoodAuth, b) :
      p \in CorePaths, b \in Bodies }

CoreSnapshotPuts ==
  { Request("PUT", <<"/", "snapshots", "/">> \o p, <<>>, GoodAuth, b) :
      p \in CorePaths \cup {Path(<<comGroup, amber, mavenMetadataXml>>)}, b \in Bodies }

CoreGets ==
  { Request("GET", <<"/", r, "/">> \o p, <<>>, NoHeader, "") :
      r \in {"releases", "snapshots"}, p \in CorePaths }

\* Uploads that put objects under, beside and outside the purged prefixes
PurgeSetupPuts ==
  { Request("PUT", <<"/", "releases", "/">> \o p, <<>>, GoodAuth, "b1") :
      p \in RootedPaths \cup {Path(<<comGroup, amber, v10, amberJar>>)} }

\* Uploads to one snapshot version through the server-computing handler
TimestampedPuts ==
  { Request("PUT", <<"/", "snapshots", "/">> \o Path(<<comGroup, amber, v10Snapshot, f>>),
            <<>>, GoodAuth, b) :
      f \in {amberJar, amberPom}, b \in Bodies }
  \cup
  { Request("PUT", <<"/", "snapshots", "/">> \o Path(<<comGroup, amber, v10, amberJar>>),
            <<>>, GoodAuth, "b1"),
    Request("PUT", <<"/", "snapshots", "/">> \o Path(<<comGroup, amber, v10Snapshot, amberJar>>),
            <<>>, NoHeader, "b1") }

\* Uploads of every path shape: one to six segments below the root, with and
\* without the -SNAPSHOT suffix, metadata and other file names
iamkaf == <<"iamkaf">>

SnapshotJarPath == Path(<<comGroup, amber, v10Snapshot, amberJar>>)
ArtifactMetadataPath == Path(<<comGroup, amber, mavenMetadataXml>>)

PublishPaths ==
  { SnapshotJarPath,
    ArtifactMetadataPath,
    Path(<<comGroup, amber, v10, amberJar>>),
    Path(<<comGroup, amber, v10, mavenMetadataXml>>),
    Path(<<comGroup, iamkaf, amber, mavenMetadataXml>>),
    Path(<<comGroup, iamkaf, comGroup, amber, mavenMetadataXml>>),
    Path(<<comGroup, amber, v10Snapshot, amberTxt>>),
    Path(<<comGroup, iamkaf, amber, v10Snapshot, amberJar>>),
    Path(<<comGroup, amber, amberJar>>),
    Path(<<comGroup, amberJar>>),
    Path(<<amberJar>>) }

PublishPuts ==
  { Request("PUT", <<"/", r, "/">> \o p, <<>>, GoodAuth, "b1") :
      r \in {"releases", "snapshots"}, p \in PublishPaths }
  \cup
  { Request("PUT", <<"/", r, "/">> \o p, <<>>, GoodAuth, "b2") :
      r \in {"releases", "snapshots"}, p \in {SnapshotJarPath, ArtifactMetadataPath} }

\* Writes and purges under every kind of Authorization header
AuthHeaders == {NoHeader, BearerAuth, BadAuth, GoodAuth}

AuthRequests ==
  { Request("PUT", <<"/", r, "/">> \o p, <<>>, a, "b1") :
      r \in {"releases", "snapshots"},
      p \in {SnapshotJarPath, Path(<<amberJar>>),
              Path(<<<<"releases">>, comGroup, amber, v10Snapshot, amberJar>>)},
      a \in AuthHeaders }
  \cup
  { Request("DELETE", <<"/", "api", "/", "purge">>, q, a, "") :
      q \in {<<"com", ".", "amber">>, <<>>}, a \in AuthHeaders }

\* Uploads and catalog reads.  The bodies are documents: an uploaded
\* maven-metadata.xml, or bytes that hold no metadata (NoDoc).
hidden == <<".", "hidden">>
v100 == <<"1", ".", "0", ".", "0">>
v200 == <<"2", ".", "0", ".", "0">>
v20 == <<"2", ".", "0">>

MetaDoc(versions, latest, release) ==
  [NoDoc EXCEPT !.versions = versions, !.latest = latest, !.release = release]

CatalogDocs ==
  { MetaDoc(<<v100>>, v100, v100),
    MetaDoc(<<v100, v200>>, v200, v100),
    MetaDoc(<<v200, v100, v200>>, v200, v200),
    MetaDoc(<<v100>>, <<>>, v100),
    MetaDoc(<<v10>>, v10, v10),
    MetaDoc(<<v10, v20>>, v20, v20),
    NoDoc }

ApiRequest(path, group, artifact) ==
  [method |-> "GET", path |-> path, query |-> <<>>, group |-> group, artifact |-> artifact,
   version |-> <<>>, auth |-> NoHeader, body |-> NoDoc]

CatalogPuts ==
  { [Request("PUT", <<"/", "releases", "/">> \o p, <<>>, GoodAuth, "") EXCEPT !.body = NoDoc] :
      p \in { Path(<<comGroup, amber, v10, amberJar>>),
              Path(<<comGroup, amberCommon, v10, amberJar>>),
              Path(<<comGroup, hidden, v10, amberJar>>),
              Path(<<comGroup, iamkaf, amber, v10, amberJar>>) } }
  \cup
  { [Request("PUT", <<"/", "snapshots", "/">> \o ArtifactMetadataPath, <<>>, GoodAuth, "")
       EXCEPT !.body = doc] : doc \in CatalogDocs }

CatalogGets ==
  { ApiRequest(<<"/", "api", "/", "artifacts">>, g, <<>>) :
      g \in {<<"com">>, <<"com", ".", "iamkaf">>, <<>>} }
  \cup
  { ApiRequest(<<"/", "api", "/", "versions">>, <<"com">>, a) : a \in {amber, iamkaf, <<>>} }

\* Uploaded artifact metadata with and without each pointer, and reads of
\* the latest version
LatestDocs ==
  { MetaDoc(<<v100>>, v100, v100),
    MetaDoc(<<v100, v200>>, v200, v100),
    MetaDoc(<<v100, v200>>, <<>>, v100),
    MetaDoc(<<v100, v200>>, v200, <<>>),
    MetaDoc(<<v100>>, <<>>, <<>>),
    MetaDoc(<<v10, v20>>, v20, v10),
    NoDoc }

LatestPuts ==
  { [Request("PUT", <<"/", "snapshots", "/">> \o Path(<<comGroup, a, mavenMetadataXml>>),
             <<>>, GoodAuth, "") EXCEPT !.body = doc] :
      a \in {amber, amberCommon}, doc \in LatestDocs }

LatestGets ==
  { ApiRequest(<<"/", "api", "/", "latest">>, g, a) :
      g \in {<<"com">>, <<>>}, a \in {amber, amberCommon, iamkaf, <<>>} }

\* Versions of dot-separated integer components with and without build
\* metadata, and the documents that list up to MaxVersions of them
v120 == <<"1", ".", "2", ".", "0">>
v1100 == <<"1", ".", "10", ".", "0">>
v200build5 == <<"2", ".", "0", ".", "0", "+", "build5">>
v201build5 == <<"2", ".", "0", ".", "1", "+", "build5">>
v20build2 == <<"2", ".", "0", "+", "build2">>

SortedVersions == {v100, v120, v1100, v200build5, v201build5, v20build2}

RECURSIVE SeqsUpTo(_, _)
SeqsUpTo(S, n) ==
  IF n = 0 THEN {<<>>}
  ELSE LET shorter == SeqsUpTo(S, n - 1)
       IN  shorter \cup {Append(q, x) : q \in shorter, x \in S}

VersionLists == SeqsUpTo(SortedVersions, MaxVersions) \ {<<>>}

VersionsGet == ApiRequest(<<"/", "api", "/", "versions">>, <<"com">>, amber)

\* One request or two on each route
FailureRequests ==
  { [Request("PUT", <<"/", "releases", "/">> \o p, <<>>, GoodAuth, "") EXCEPT !.body = NoDoc] :
      p \in { Path(<<comGroup, amber, v10, amberJar>>),
              Path(<<<<"releases">>, comGroup, amber, v10, amberJar>>) } }
  \cup
  { [Request("PUT", <<"/", "snapshots", "/">> \o ArtifactMetadataPath, <<>>, GoodAuth, "")
       EXCEPT !.body = MetaDoc(<<v100>>, v100, v100)],
    [Request("GET", <<"/", "releases", "/">> \o Path(<<comGroup, amber, v10, amberJar>>),
             <<>>, NoHeader, "") EXCEPT !.body = NoDoc],
    [Request("DELETE", <<"/", "api", "/", "purge">>, <<"com", ".", "amber">>, GoodAuth, "")
       EXCEPT !.body = NoDoc],
    ApiRequest(<<"/", "api", "/", "groups">>, <<>>, <<>>),
    ApiRequest(<<"/", "api", "/", "artifacts">>, <<"com">>, <<>>),
    ApiRequest(<<"/", "api", "/", "versions">>, <<"com">>, amber),
    [ApiRequest(<<"/", "api", "/", "files">>, <<"com">>, amber) EXCEPT !.version = v10],
    ApiRequest(<<"/", "api", "/", "latest">>, <<"com">>, amber) }

\* Every method on a path of every route, with valid credentials
Methods == {"GET", "PUT", "DELETE", "POST", "HEAD", "OPTIONS"}

MethodPaths ==
  { <<"/", "releases", "/">> \o Path(<<comGroup, amber, v10, amberJar>>),
    <<"/", "releases", "/">> \o Path(<<<<"releases">>, comGroup, amber, v10, amberJar>>),
    <<"/", "snapshots", "/">> \o SnapshotJarPath,
    <<"/", "api", "/", "purge">>,
    <<"/", "api", "/", "groups">>,
    <<"/", "api", "/", "hidden">> }

MethodRequests ==
  { Request(m, p, <<"com", ".", "amber">>, GoodAuth, "b1") : m \in Methods, p \in MethodPaths }

\* Snapshot uploads under the file names a Maven client sends,
\* {artifactId}-{version}.{ext}, and under a bare {artifactId}.{ext}
SnapshotFileName(artifactId, version, ext) == artifactId \o <<"-">> \o version \o <<".", ext>>

NamedSnapshotPuts ==
  { Request("PUT", <<"/", "snapshots", "/">> \o Path(<<comGroup, amber, v10Snapshot, f>>),
            <<>>, GoodAuth, "b1") :
      f \in { SnapshotFileName(amber, v10Snapshot, "jar"),
              SnapshotFileName(amber, v10Snapshot, "pom"),
              amberJar } }

\* Uploads that give a version, a group and the root more entries than a
\* listing page holds, and the listings of each
ListingPuts ==
  { Request("PUT", <<"/", "releases", "/">> \o p, <<>>, GoodAuth, "b1") :
      p \in { Path(<<comGroup, amber, v10, amberJar>>),
              Path(<<comGroup, amber, v10, amberPom>>),
              Path(<<comGroup, amber, v10, amberJarSha1>>),
              Path(<<comGroup, amber, v10, hidden \o <<".", "jar">>>>),
              Path(<<comGroup, iamkaf, v10, amberJar>>),
              Path(<<comGroup, amberCommon, v10, amberJar>>),
              Path(<<iamkaf, amber, v10, amberJar>>),
              Path(<<amber, amber, v10, amberJar>>) } }

ListingGets ==
  { [ApiRequest(<<"/", "api", "/", "groups">>, <<>>, <<>>) EXCEPT !.body = "b1"],
    [ApiRequest(<<"/", "api", "/", "artifacts">>, <<"com">>, <<>>) EXCEPT !.body = "b1"],
    [ApiRequest(<<"/", "api", "/", "files">>, <<"com">>, amber)
       EXCEPT !.version = v10, !.body = "b1"],
    [ApiRequest(<<"/", "api", "/", "files">>, <<"com">>, amber) EXCEPT !.body = "b1"] }

\* Writes and purges under Basic headers that are malformed, and under the
\* valid one
MalformedHeaders == {NoSeparatorAuth, EmptyTokenAuth, NotBase64Auth}

MalformedRequests ==
  { Request("PUT", <<"/", r, "/">> \o p, <<>>, a, "b1") :
      r \in {"releases", "snapshots"},
      p \in {SnapshotJarPath, Path(<<<<"releases">>, comGroup, amber, v10Snapshot, amberJar>>)},
      a \in MalformedHeaders \cup {GoodAuth} }
  \cup
  { Request("DELETE", <<"/", "api", "/", "purge">>, <<"com", ".", "amber">>, a, "") :
      a \in MalformedHeaders \cup {GoodAuth} }

\* ------------------------------------------------------------------------
\* Kinds of file names and keys, as the properties name them
\* ------------------------------------------------------------------------
\* Writes and purges whose credentials differ from the configured pair by a
\* further field, by a longer password, or hold a colon in the password
CredentialHeaders ==
  {GoodAuth, BadAuth, ExtraFieldAuth, LongerPasswordAuth, ColonPasswordAuth}

CredentialRequests ==
  { Request("PUT", <<"/", r, "/">> \o p, <<>>, a, "b1") :
      r \in {"releases", "snapshots"},
      p \in {SnapshotJarPath, Path(<<<<"releases">>, comGroup, amber, v10Snapshot, amberJar>>)},
      a \in CredentialHeaders }
  \cup
  { Request("DELETE", <<"/", "api", "/", "purge">>, <<"com", ".", "amber">>, a, "") :
      a \in CredentialHeaders }

\* Uploads to paths in which one segment is empty: the group, the
\* artifactId, the version or the file name (a path that ends in "/")
EmptySegmentPaths ==
  { Path(<< <<>>, amber, v10Snapshot, amberJar >>),
    Path(<< comGroup, <<>>, v10Snapshot, amberJar >>),
    Path(<< comGroup, amber, <<>>, amberJar >>),
    Path(<< comGroup, amber, <<>>, mavenMetadataXml >>),
    Path(<< comGroup, amber, v10Snapshot, <<>> >>),
    Path(<< <<>>, amber, mavenMetadataXml >>) }

EmptySegmentPuts ==
  { Request("PUT", <<"/", r, "/">> \o p, <<>>, GoodAuth, "b1") :
      r \in {"releases", "snapshots"}, p \in EmptySegmentPaths \cup {SnapshotJarPath} }

\* Uploads of the files of one release version: jar, pom, sources jar,
\* javadoc jar
VersionFiles == {amberJar, amberPom, amberSourcesJar, amberJavadocJar}

MultiFilePuts ==
  { Request("PUT", <<"/", "releases", "/">> \o Path(<<comGroup, amber, v10, f>>), <<>>, GoodAuth, "b1") :
      f \in VersionFiles }

\* Uploads of files of two versions to the routes that check by version
VersionedFiles == {amberJar, amberPom, amberJarSha1, amberJarAsc, amberJarMd5, mavenMetadataXml}

VersionedRequests ==
  { Request("PUT", <<"/", r, "/">> \o Path(<<comGroup, amber, v10, f>>), <<>>, GoodAuth, "b1") :
      r \in {"publish", "releases"}, f \in VersionedFiles }
  \cup
  { Request("PUT", <<"/", r, "/">> \o Path(<<comGroup, amber, v20, amberJar>>), <<>>, GoodAuth, "b1") :
      r \in {"publish", "releases"} }
  \cup
  { Request("GET", <<"/", "publish", "/">> \o Path(<<comGroup, amber, v10, amberJar>>), <<>>, NoHeader, "") }

\* Uploads that are stored, refused (400, 401, 409) or overwrite, and reads
\* of an artifact and of the catalog
FramePuts ==
  { Request("PUT", <<"/", r, "/">> \o Path(<<comGroup, amber, v10, amberJar>>), <<>>, GoodAuth, b) :
      r \in {"releases", "snapshots"}, b \in Bodies }
  \cup
  { Request("PUT", <<"/", "releases", "/">> \o Path(<<comGroup, amber, v10, amberJar>>), <<>>, NoHeader, "b1"),
    Request("PUT", <<"/", "releases", "/">> \o Path(<<comGroup, amber, v10, amberTxt>>), <<>>, GoodAuth, "b1"),
    Request("PUT", <<"/", "releases", "/">> \o Path(<<comGroup, amber, v10, amberJarSha1>>), <<>>, GoodAuth, "b1"),
    Request("PUT", <<"/", "snapshots", "/">> \o SnapshotJarPath, <<>>, GoodAuth, "b1") }

FrameGets ==
  { Request("GET", <<"/", "releases", "/">> \o Path(<<comGroup, amber, v10, amberJar>>), <<>>, NoHeader, ""),
    [ApiRequest(<<"/", "api", "/", "files">>, <<"com">>, amber) EXCEPT !.version = v10],
    ApiRequest(<<"/", "api", "/", "groups">>, <<>>, <<>>) }

\* Objects in and around the purged prefix: the artifact under both roots, a
\* sibling whose name starts with the artifact's, another artifact of the
\* group, another group, and the artifact outside the roots
PurgeFramePuts ==
  { Request("PUT", <<"/", "releases", "/">> \o p, <<>>, GoodAuth, "b1") :
      p \in { Path(<<<<"releases">>, comGroup, amber, v10, amberJar>>),
              Path(<<<<"snapshots">>, comGroup, amber, v10Snapshot, amberJar>>),
              Path(<<<<"releases">>, comGroup, amberCommon, v10, amberJar>>),
              Path(<<<<"releases">>, comGroup, iamkaf, v10, amberJar>>),
              Path(<<<<"releases">>, iamkaf, amber, v10, amberJar>>),
              Path(<<comGroup, amber, v10, amberJar>>) } }

PurgeFrameRequests ==
  { Request("DELETE", <<"/", "api", "/", "purge">>, q, GoodAuth, "") :
      q \in {<<"com", ".", "amber">>, <<"a">>, <<"a", ".">>, <<"a", ".", "a">>} }

\* The same Maven paths uploaded and downloaded through both roots; one
\* path has a group that starts with the segment releases
NamespacePaths ==
  { SnapshotJarPath, Path(<<<<"releases">>, comGroup, amber, v10Snapshot, amberJar>>) }

NamespaceRequests ==
  { Request("PUT", <<"/", r, "/">> \o p, <<>>, GoodAuth, b) :
      r \in {"releases", "snapshots"}, p \in NamespacePaths, b \in Bodies }
  \cup
  { Request("GET", <<"/", r, "/">> \o p, <<>>, NoHeader, "") :
      r \in {"releases", "snapshots"}, p \in NamespacePaths }

IsChecksumName(f) ==
  \/ EndsWith(f, <<".", "sha1">>) \/ EndsWith(f, <<".", "sha256">>)
  \/ EndsWith(f, <<".", "sha512">>) \/ EndsWith(f, <<".", "md5">>)

IsMetadataName(f) == Includes(f, <<"maven", "-", "metadata">>)

IsPrimaryName(f) == ~IsChecksumName(f) /\ ~IsMetadataName(f)

KeyFileName(k) == Split(k, "/")[Len(Split(k, "/"))]

\* ------------------------------------------------------------------------
\* State machine
\* ------------------------------------------------------------------------
Init ==
  /\ store = <<>>
  /\ h = [i \in Handlers |-> Idle]
  /\ reqCount = 0
  /\ released = {}
  /\ now = 0

InFlight(i) == h[i].pc \notin {"idle", "done", "thrown", "displayed"}

NoneInFlight == \A i \in Handlers : ~InFlight(i)

\* A request arrives at instance i: fetch runs to the handler's first await
Receive(i, requests, limit) ==
  /\ ~InFlight(i)
  /\ reqCount < limit
  /\ \E req \in requests : h' = [h EXCEPT ![i] = fetch(req, ConfiguredEnv, store)]
  /\ reqCount' = reqCount + 1
  /\ UNCHANGED <<store, released, now>>

\* A request arrives at instance i of a worker bound to one of envs
ReceiveEnv(i, requests, envs, limit) ==
  /\ ~InFlight(i)
  /\ reqCount < limit
  /\ \E req \in requests, env \in envs : h' = [h EXCEPT ![i] = fetch(req, env, store)]
  /\ reqCount' = reqCount + 1
  /\ UNCHANGED <<store, released, now>>

\* The directory of a version-level key: the key without its file name
KeyVersionPrefix(k) == SubSeq(k, 1, Len(k) - Len(KeyFileName(k)))

\* Variant: the check looks for any object of the version
ReleaseHead_VersionPrefix(i) ==
  /\ h[i].route = "releasePut" /\ h[i].pc = "head"
  /\ h' = [h EXCEPT ![i] =
             IF \E k \in DOMAIN store : StartsWith(k, KeyVersionPrefix(h[i].key))
             THEN Respond(h[i], 409, "already exists")
             ELSE [h[i] EXCEPT !.pc = "put"]]
  /\ UNCHANGED <<store, reqCount, released, now>>

\* handleReleasePut: const existingFile = await env.R2.head(r2Key)
ReleaseHead(i) ==
  /\ h[i].route = "releasePut" /\ h[i].pc = "head"
  /\ h' = [h EXCEPT ![i] =
             IF R2Head(store, h[i].key)
             THEN Respond(h[i], 409, "already exists")
             ELSE [h[i] EXCEPT !.pc = "put"]]
  /\ UNCHANGED <<store, reqCount, released, now>>

\* Variant: the upload also writes the artifact-level maven-metadata.xml
ReleasePutObject_WithMetadata(i) ==
  /\ h[i].route = "releasePut" /\ h[i].pc = "put"
  /\ LET parts       == Split(h[i].key, "/")
         metadataKey == Join(SubSeq(parts, 1, Len(parts) - 2), "/") \o <<"/">> \o mavenMetadataXml
     IN  store' = R2Put(R2Put(store, h[i].key, h[i].req.body), metadataKey, h[i].req.body)
  /\ h' = [h EXCEPT ![i] = Respond(h[i], 200, "OK")]
  /\ released' = IF IsPrimaryName(KeyFileName(h[i].key))
                 THEN released \cup {h[i].key} ELSE released
  /\ UNCHANGED <<reqCount, now>>

\* handleReleasePut: await env.R2.put(r2Key, fileContent); return 200
ReleasePutObject(i) ==
  /\ h[i].route = "releasePut" /\ h[i].pc = "put"
  /\ store' = R2Put(store, h[i].key, h[i].req.body)
  /\ h' = [h EXCEPT ![i] = Respond(h[i], 200, "OK")]
  /\ released' = IF IsPrimaryName(KeyFileName(h[i].key))
                 THEN released \cup {h[i].key} ELSE released
  /\ UNCHANGED <<reqCount, now>>

\* Variant: an object already stored under the key is kept
SnapshotPutObject_KeepExisting(i) ==
  /\ h[i].route = "snapshotPut" /\ h[i].pc = "put"
  /\ store' = IF R2Head(store, h[i].key) THEN store ELSE R2Put(store, h[i].key, h[i].req.body)
  /\ h' = [h EXCEPT ![i] = Respond(h[i], 200, "OK")]
  /\ UNCHANGED <<reqCount, released, now>>

\* handleSnapshotPut: await env.R2.put(r2Key, fileContent); return 200
SnapshotPutObject(i) ==
  /\ h[i].route = "snapshotPut" /\ h[i].pc = "put"
  /\ store' = R2Put(store, h[i].key, h[i].req.body)
  /\ h' = [h EXCEPT ![i] = Respond(h[i], 200, "OK")]
  /\ UNCHANGED <<reqCount, released, now>>

\* handleArtifactGet: const object = await env.R2.get(mavenPath)
ArtifactGetObject(i) ==
  /\ h[i].route = "get" /\ h[i].pc = "get"
  /\ h' = [h EXCEPT ![i] =
             IF R2Head(store, h[i].key)
             THEN Respond(h[i], 200, store[h[i].key])
             ELSE Respond(h[i], 404, "Not found")]
  /\ UNCHANGED <<store, reqCount, released, now>>

\* handleGetArtifacts: const listed = await env.R2.list({prefix, delimiter}),
\* then the map callbacks run up to their await env.R2.get(metadataPath)
ArtifactsList(i) ==
  /\ h[i].route = "artifacts" /\ h[i].pc = "list"
  /\ LET listed == R2ListDelimited(store, h[i].prefix \o <<"/">>, ListLimit)
         names  == KeptNames(listed.delimitedPrefixes)
     IN  h' = [h EXCEPT ![i] =
                 IF Len(names) = 0 THEN jsonResponse(h[i], <<>>)
                 ELSE [h[i] EXCEPT !.pc = "getMetadata",
                                   !.pending = 1..Len(names),
                                   !.data = [n \in 1..Len(names) |->
                                               [name |-> names[n], isArtifact |-> FALSE]]]]
  /\ UNCHANGED <<store, reqCount, released, now>>

\* One of the pending env.R2.get(metadataPath) is answered; after the last,
\* Promise.all resolves and the response is sent
ArtifactsGetMetadata(i) ==
  /\ h[i].route = "artifacts" /\ h[i].pc = "getMetadata"
  /\ \E n \in h[i].pending :
       LET metadataPath == ArtifactMetadataPathOf(h[i].prefix, h[i].data[n].name)
           results      == [h[i].data EXCEPT ![n].isArtifact = R2Head(store, metadataPath)]
           hd           == [h[i] EXCEPT !.data = results, !.pending = @ \ {n}]
       IN  h' = [h EXCEPT ![i] = IF hd.pending = {} THEN jsonResponse(hd, results) ELSE hd]
  /\ UNCHANGED <<store, reqCount, released, now>>

\* handleGetVersions: const object = await env.R2.get(metadataPath)
VersionsGetObject(i) ==
  /\ h[i].route = "versions" /\ h[i].pc = "get"
  /\ h' = [h EXCEPT ![i] =
             IF R2Head(store, h[i].key)
             THEN VersionsResponse(h[i], store[h[i].key])
             ELSE errorResponse(h[i], "Artifact not found", 404)]
  /\ UNCHANGED <<store, reqCount, released, now>>

\* handleGetGroups: const listed = await env.R2.list({delimiter: '/'})
GroupsList(i) ==
  /\ h[i].route = "groups" /\ h[i].pc = "list"
  /\ LET listed == R2ListDelimited(store, <<>>, ListLimit)
     IN  h' = [h EXCEPT ![i] = jsonResponse(h[i], KeptGroups(listed.delimitedPrefixes))]
  /\ UNCHANGED <<store, reqCount, released, now>>

\* handleGetFiles: const listed = await env.R2.list({prefix}); of each file
\* the model keeps the name
FilesList(i) ==
  /\ h[i].route = "files" /\ h[i].pc = "list"
  /\ LET listed == R2List(store, h[i].prefix, <<>>, ListLimit)
         names  == KeptFiles(listed.objects, h[i].prefix)
     IN  h' = [h EXCEPT ![i] =
                 jsonResponse(h[i], [n \in 1..Len(names) |-> [name |-> names[n]]])]
  /\ UNCHANGED <<store, reqCount, released, now>>

\* handleGetLatest: const object = await env.R2.get(metadataPath)
LatestGetObject(i) ==
  /\ h[i].route = "latest" /\ h[i].pc = "get"
  /\ h' = [h EXCEPT ![i] =
             IF R2Head(store, h[i].key)
             THEN LatestResponse(h[i], store[h[i].key])
             ELSE errorResponse(h[i], "Artifact not found", 404)]
  /\ UNCHANGED <<store, reqCount, released, now>>

\* ArtifactPage: the versions of the response are sorted again for display,
\* descending by default
PageSort(i) ==
  /\ h[i].route = "versions" /\ h[i].pc = "done" /\ h[i].status = 200
  /\ h' = [h EXCEPT ![i] = [@ EXCEPT !.pc = "displayed", !.data = SortDescending(@)]]
  /\ UNCHANGED <<store, reqCount, released, now>>

\* The store operation a publish or download handler awaits rejects: the
\* handlers have no try/catch and fetch awaits them outside its own
PublishStoreFail(i) ==
  /\ h[i].route \in {"releasePut", "snapshotPut", "get"}
  /\ h[i].pc \in {"head", "put", "get"}
  /\ h' = [h EXCEPT ![i] = Throw([h[i] EXCEPT !.failed = TRUE])]
  /\ UNCHANGED <<store, reqCount, released, now>>

\* The store operation a catalog handler awaits rejects inside the try of fetch
ApiStoreFail(i) ==
  /\ h[i].route \in {"groups", "artifacts", "versions", "files", "latest"}
  /\ h[i].pc \in {"list", "get", "getMetadata"}
  /\ h' = [h EXCEPT ![i] = CatchApiError([h[i] EXCEPT !.failed = TRUE, !.pending = {}])]
  /\ UNCHANGED <<store, reqCount, released, now>>

\* ------------------------------------------------------------------------
\* Purge steps: the for-loop over the roots and the while-loop over pages
\* ------------------------------------------------------------------------
\* handlePublishPut: const versionExists = await checkVersionExists(...)
CheckVersionExists(i) ==
  /\ h[i].route = "publishPut" /\ h[i].pc = "check"
  /\ h' = [h EXCEPT ![i] =
             IF checkVersionExists(store, h[i].prefix)
             THEN Respond(h[i], 409, "already exists")
             ELSE [h[i] EXCEPT !.pc = "put"]]
  /\ UNCHANGED <<store, reqCount, released, now>>

\* handlePublishPut: await env.R2.put(r2Key, fileContent); return 200
PublishPutObject(i) ==
  /\ h[i].route = "publishPut" /\ h[i].pc = "put"
  /\ store' = R2Put(store, h[i].key, h[i].req.body)
  /\ h' = [h EXCEPT ![i] = Respond(h[i], 200, "OK")]
  /\ UNCHANGED <<reqCount, released, now>>

\* A request arrives at instance i of a worker that checks by version
ReceiveVersioned(i, requests, limit) ==
  /\ ~InFlight(i)
  /\ reqCount < limit
  /\ \E req \in requests :
       h' = [h EXCEPT ![i] = fetchPublishRoutes(req, ConfiguredEnv, store)]
  /\ reqCount' = reqCount + 1
  /\ UNCHANGED <<store, released, now>>

NoList == [objects |-> <<>>, truncated |-> FALSE, cursor |-> <<>>]

\* return jsonResponse({success: errors.length === 0, deleted, errors})
PurgeResponse(hd) ==
  Respond([hd EXCEPT !.list = NoList, !.cursor = <<>>, !.truncated = FALSE], 200,
          IF Len(hd.errors) = 0 THEN "success:true" ELSE "success:false")

\* Next iteration of for (const root of roots), or the response after the last
NextRoot(hd) ==
  IF hd.root < Len(roots)
  THEN [hd EXCEPT !.pc = "list", !.root = @ + 1, !.truncated = TRUE, !.cursor = <<>>,
                  !.list = NoList]
  ELSE PurgeResponse(hd)

\* Variant: the first page is taken to be the whole listing
AfterPage_SinglePage(hd) == NextRoot([hd EXCEPT !.truncated = FALSE, !.cursor = <<>>])

\* truncated = list.truncated; cursor = list.truncated ? list.cursor : undefined;
\* then the test of while (truncated)
AfterPage(hd) ==
  IF hd.list.truncated
  THEN [hd EXCEPT !.pc = "list", !.truncated = TRUE, !.cursor = hd.list.cursor,
                  !.list = NoList]
  ELSE NextRoot([hd EXCEPT !.truncated = FALSE, !.cursor = <<>>])

\* Variant: the try/catch encloses the for-loop, the first failure ends the purge
PurgeCatch_Abort(hd) ==
  PurgeResponse([hd EXCEPT !.errors = Append(@, FullPrefix(roots[hd.root], hd.prefix))])

\* catch (e): errors.push(`Failed to purge ${fullPrefix}: ...`), the for-loop goes on
PurgeCatch(hd) ==
  NextRoot([hd EXCEPT !.errors = Append(@, FullPrefix(roots[hd.root], hd.prefix))])

\* const list = await env.R2.list({prefix: fullPrefix, cursor})
PurgeList(i) ==
  /\ h[i].route = "purge" /\ h[i].pc = "list"
  /\ \E limit \in 1..MaxPage :
       LET list == R2List(store, FullPrefix(roots[h[i].root], h[i].prefix),
                          h[i].cursor, limit)
           hd   == [h[i] EXCEPT !.list = list]
       IN  h' = [h EXCEPT ![i] =
                   IF Len(list.objects) > 0
                   THEN [hd EXCEPT !.pc = "delete"]
                   ELSE AfterPage(hd)]
  /\ UNCHANGED <<store, reqCount, released, now>>

\* env.R2.list rejects
PurgeListFail(i) ==
  /\ h[i].route = "purge" /\ h[i].pc = "list"
  /\ h' = [h EXCEPT ![i] = PurgeCatch(h[i])]
  /\ UNCHANGED <<store, reqCount, released, now>>

\* await env.R2.delete(keysToDelete); deletedKeys.push(...keysToDelete)
PurgeDelete(i) ==
  /\ h[i].route = "purge" /\ h[i].pc = "delete"
  /\ store' = R2Delete(store, Range(h[i].list.objects))
  /\ h' = [h EXCEPT ![i] = AfterPage([h[i] EXCEPT !.deleted = @ \o h[i].list.objects])]
  /\ released' = released \cap DOMAIN store'
  /\ UNCHANGED <<reqCount, now>>

\* env.R2.delete rejects; any part of the batch may have been deleted
PurgeDeleteFail(i) ==
  /\ h[i].route = "purge" /\ h[i].pc = "delete"
  /\ \E gone \in SUBSET Range(h[i].list.objects) : store' = R2Delete(store, gone)
  /\ h' = [h EXCEPT ![i] = PurgeCatch(h[i])]
  /\ released' = released \cap DOMAIN store'
  /\ UNCHANGED <<reqCount, now>>

\* ------------------------------------------------------------------------
\* Steps of the server-computing snapshot upload
\* ------------------------------------------------------------------------
ReceiveTimestamped(i, requests, limit) ==
  /\ ~InFlight(i)
  /\ reqCount < limit
  /\ \E req \in requests : h' = [h EXCEPT ![i] = fetchSnapshotsRoute(req, store)]
  /\ reqCount' = reqCount + 1
  /\ UNCHANGED <<store, released, now>>

\* getOrGenerateSnapshotMetadata: await env.R2.get(metadataKey), then the
\* timestamped file name
SnapshotReadMetadata(i) ==
  /\ h[i].route = "snapshotPutTimestamped" /\ h[i].pc = "readMetadata"
  /\ LET c  == h[i].coords
         sm == getOrGenerateSnapshotMetadata(store, MetadataKey(c), now)
     IN  h' = [h EXCEPT ![i] =
                 [h[i] EXCEPT !.pc = "putObject",
                              !.newTimestamp = formatTimestamp(now),
                              !.snapshotMetadata = sm,
                              !.key = VersionFileKey(c.groupPath, c.artifactId, c.version,
                                                     TimestampedFileName(c, sm))]]
  /\ UNCHANGED <<store, reqCount, released, now>>

\* await env.R2.put(r2Key, fileContent)
SnapshotPutTimestampedObject(i) ==
  /\ h[i].route = "snapshotPutTimestamped" /\ h[i].pc = "putObject"
  /\ store' = R2Put(store, h[i].key, h[i].req.body)
  /\ h' = [h EXCEPT ![i] = [h[i] EXCEPT !.pc = "readForUpdate"]]
  /\ UNCHANGED <<reqCount, released, now>>

\* formatTimestamp(new Date()).replace('.', '')
LastUpdated(date) == <<formatTimestamp(date)[1], formatTimestamp(date)[3]>>

\* updateSnapshotMetadata: await env.R2.get(metadataKey), then the new document
SnapshotReadForUpdate(i) ==
  /\ h[i].route = "snapshotPutTimestamped" /\ h[i].pc = "readForUpdate"
  /\ LET c    == h[i].coords
         sm   == h[i].snapshotMetadata
         read == IF MetadataKey(c) \in DOMAIN store
                 THEN ParseSnapshotVersions(store[MetadataKey(c)]) ELSE <<>>
         svs  == UpsertSnapshotVersion(read, parseFileName(c.fileName).extension,
                                       TimestampedValue(c, sm), LastUpdated(now))
     IN  h' = [h EXCEPT ![i] =
                 [h[i] EXCEPT !.pc = "putMetadata",
                              !.snapshotVersions = read,
                              !.xml = BuildMetadataXml(c, sm, svs, LastUpdated(now))]]
  /\ UNCHANGED <<store, reqCount, released, now>>

\* await env.R2.put(metadataKey, xml); the JSON response
SnapshotPutMetadata(i) ==
  /\ h[i].route = "snapshotPutTimestamped" /\ h[i].pc = "putMetadata"
  /\ store' = R2Put(store, MetadataKey(h[i].coords), h[i].xml)
  /\ h' = [h EXCEPT ![i] =
             [Respond(h[i], 200, "success:true") EXCEPT
                !.data = [file        |-> TimestampedFileName(h[i].coords, h[i].snapshotMetadata),
                          timestamp   |-> h[i].snapshotMetadata.timestamp,
                          buildNumber |-> h[i].snapshotMetadata.buildNumber]]]
  /\ UNCHANGED <<reqCount, released, now>>

\* A store operation the snapshot handler awaits rejects: the handler is
\* awaited outside the try of fetch
TimestampedStoreFail(i) ==
  /\ h[i].route = "snapshotPutTimestamped"
  /\ h[i].pc \in {"readMetadata", "putObject", "readForUpdate", "putMetadata"}
  /\ h' = [h EXCEPT ![i] = Throw([h[i] EXCEPT !.failed = TRUE])]
  /\ UNCHANGED <<store, reqCount, released, now>>

\* Time passes
Tick ==
  /\ now < MaxClock
  /\ now' = now + 1
  /\ UNCHANGED <<store, h, reqCount, released>>

\* ------------------------------------------------------------------------
\* Specifications
\* ------------------------------------------------------------------------
\* Release uploads handled one at a time
SeqReleasePut == NoneInFlight /\ Receive(1, ReleasePutRequests, MaxSeqReq)
StepReleaseHead == \E i \in Handlers : ReleaseHead(i)
StepReleasePutObject == \E i \in Handlers : ReleasePutObject(i)

NextSeqReleases == SeqReleasePut \/ StepReleaseHead \/ StepReleasePutObject

SpecSeqReleases == Init /\ [][NextSeqReleases]_vars

\* Uploads, downloads and preflights handled one at a time, no purge
SeqCoreReleasePut == NoneInFlight /\ Receive(1, CoreReleasePuts, MaxSeqReq)
SeqCoreSnapshotPut == NoneInFlight /\ Receive(1, CoreSnapshotPuts, MaxSeqReq)
SeqCoreGet == NoneInFlight /\ Receive(1, CoreGets, MaxSeqReq)
SeqOptions == NoneInFlight /\ Receive(1, OptionsRequests, MaxSeqReq)
StepSnapshotPutObject == \E i \in Handlers : SnapshotPutObject(i)
StepArtifactGetObject == \E i \in Handlers : ArtifactGetObject(i)

NextSeqNoPurge ==
  \/ SeqCoreReleasePut \/ SeqCoreSnapshotPut \/ SeqCoreGet \/ SeqOptions
  \/ StepReleaseHead \/ StepReleasePutObject
  \/ StepSnapshotPutObject \/ StepArtifactGetObject

SpecSeqNoPurge == Init /\ [][NextSeqNoPurge]_vars

\* Requests handled concurrently: a second request may arrive while the
\* first is suspended at an await
CoreReleasePut == \E i \in Handlers : Receive(i, CoreReleasePuts, MaxRaceReq)
CoreSnapshotPut == \E i \in Handlers : Receive(i, CoreSnapshotPuts, MaxRaceReq)
CoreGet == \E i \in Handlers : Receive(i, CoreGets, MaxRaceReq)

Next ==
  \/ CoreReleasePut \/ CoreSnapshotPut \/ CoreGet
  \/ StepReleaseHead \/ StepReleasePutObject
  \/ StepSnapshotPutObject \/ StepArtifactGetObject

Spec == Init /\ [][Next]_vars

\* Uploads and purges handled one at a time
SeqPurgeSetupPut == NoneInFlight /\ Receive(1, PurgeSetupPuts, MaxReq)
SeqPurge == NoneInFlight /\ Receive(1, PurgeRequests, MaxReq)
StepPurgeList == \E i \in Handlers : PurgeList(i)
StepPurgeListFail == \E i \in Handlers : PurgeListFail(i)
StepPurgeDelete == \E i \in Handlers : PurgeDelete(i)
StepPurgeDeleteFail == \E i \in Handlers : PurgeDeleteFail(i)

NextSeqPurge ==
  \/ SeqPurgeSetupPut \/ SeqPurge
  \/ StepReleaseHead \/ StepReleasePutObject
  \/ StepPurgeList \/ StepPurgeListFail \/ StepPurgeDelete \/ StepPurgeDeleteFail

SpecSeqPurge == Init /\ [][NextSeqPurge]_vars

\* A handler suspended at an await is resumed when the store answers
FairSpecSeqPurge ==
  SpecSeqPurge /\ WF_vars(StepReleaseHead \/ StepReleasePutObject)
               /\ WF_vars(StepPurgeList \/ StepPurgeDelete)


\* Server-computed snapshot uploads handled one at a time
SeqTimestampedPut == NoneInFlight /\ ReceiveTimestamped(1, TimestampedPuts, MaxSnapReq)
StepSnapshotReadMetadata == \E i \in Handlers : SnapshotReadMetadata(i)
StepSnapshotPutTimestampedObject == \E i \in Handlers : SnapshotPutTimestampedObject(i)
StepSnapshotReadForUpdate == \E i \in Handlers : SnapshotReadForUpdate(i)
StepSnapshotPutMetadata == \E i \in Handlers : SnapshotPutMetadata(i)

NextSeqTimestamped ==
  \/ SeqTimestampedPut \/ Tick
  \/ StepSnapshotReadMetadata \/ StepSnapshotPutTimestampedObject
  \/ StepSnapshotReadForUpdate \/ StepSnapshotPutMetadata

SpecSeqTimestamped == Init /\ [][NextSeqTimestamped]_vars

\* Server-computed snapshot uploads handled concurrently
TimestampedPut == \E i \in Handlers : ReceiveTimestamped(i, TimestampedPuts, MaxRaceReq)

NextTimestamped ==
  \/ TimestampedPut \/ Tick
  \/ StepSnapshotReadMetadata \/ StepSnapshotPutTimestampedObject
  \/ StepSnapshotReadForUpdate \/ StepSnapshotPutMetadata

SpecTimestamped == Init /\ [][NextTimestamped]_vars

\* Uploads of every path shape to both roots, handled one at a time
SeqPublishPut == NoneInFlight /\ Receive(1, PublishPuts, MaxPubReq)

NextSeqPublish ==
  \/ SeqPublishPut
  \/ StepReleaseHead \/ StepReleasePutObject \/ StepSnapshotPutObject

SpecSeqPublish == Init /\ [][NextSeqPublish]_vars

\* Writes and purges under every Authorization header and every binding of
\* the credentials, handled one at a time
SeqAuthRequest == NoneInFlight /\ ReceiveEnv(1, AuthRequests, Envs, MaxAuthReq)

NextSeqAuth ==
  \/ SeqAuthRequest
  \/ StepReleaseHead \/ StepReleasePutObject \/ StepSnapshotPutObject
  \/ StepPurgeList \/ StepPurgeDelete

SpecSeqAuth == Init /\ [][NextSeqAuth]_vars

\* Uploads and catalog reads handled one at a time
SeqCatalogPut == NoneInFlight /\ Receive(1, CatalogPuts, MaxCatReq)
SeqCatalogGet == NoneInFlight /\ Receive(1, CatalogGets, MaxCatReq)
StepArtifactsList == \E i \in Handlers : ArtifactsList(i)
StepArtifactsGetMetadata == \E i \in Handlers : ArtifactsGetMetadata(i)
StepVersionsGetObject == \E i \in Handlers : VersionsGetObject(i)

NextSeqCatalog ==
  \/ SeqCatalogPut \/ SeqCatalogGet
  \/ StepReleaseHead \/ StepReleasePutObject \/ StepSnapshotPutObject
  \/ StepArtifactsList \/ StepArtifactsGetMetadata \/ StepVersionsGetObject

SpecSeqCatalog == Init /\ [][NextSeqCatalog]_vars

\* Uploads of artifact metadata and reads of the latest version, handled one
\* at a time
SeqLatestPut == NoneInFlight /\ Receive(1, LatestPuts, MaxLatestReq)
SeqLatestGet == NoneInFlight /\ Receive(1, LatestGets, MaxLatestReq)
StepLatestGetObject == \E i \in Handlers : LatestGetObject(i)

NextSeqLatest ==
  \/ SeqLatestPut \/ SeqLatestGet
  \/ StepSnapshotPutObject \/ StepLatestGetObject

SpecSeqLatest == Init /\ [][NextSeqLatest]_vars

\* The version sort applied to every list of up to MaxVersions versions: the
\* store holds an artifact's metadata listing them, one request reads the
\* versions and the page displays them
InitSort ==
  /\ \E versions \in VersionLists :
       store = (ArtifactMetadataPath :> MetaDoc(versions, <<>>, <<>>))
  /\ h = [i \in Handlers |-> Idle]
  /\ reqCount = 0
  /\ released = {}
  /\ now = 0

SortGet == NoneInFlight /\ Receive(1, {VersionsGet}, 1)
StepPageSort == \E i \in Handlers : PageSort(i)

NextSort == SortGet \/ StepVersionsGetObject \/ StepPageSort

SpecSort == InitSort /\ [][NextSort]_vars

\* Requests on every route, handled one at a time; each store operation
\* either answers or rejects
SeqFailureRequest == NoneInFlight /\ Receive(1, FailureRequests, MaxFailReq)
StepGroupsList == \E i \in Handlers : GroupsList(i)
StepFilesList == \E i \in Handlers : FilesList(i)
StepPublishStoreFail == \E i \in Handlers : PublishStoreFail(i)
StepApiStoreFail == \E i \in Handlers : ApiStoreFail(i)

NextSeqFailure ==
  \/ SeqFailureRequest
  \/ StepReleaseHead \/ StepReleasePutObject \/ StepSnapshotPutObject
  \/ StepArtifactGetObject
  \/ StepPurgeList \/ StepPurgeListFail \/ StepPurgeDelete \/ StepPurgeDeleteFail
  \/ StepGroupsList \/ StepArtifactsList \/ StepArtifactsGetMetadata
  \/ StepVersionsGetObject \/ StepFilesList \/ StepLatestGetObject
  \/ StepPublishStoreFail \/ StepApiStoreFail

SpecSeqFailure == Init /\ [][NextSeqFailure]_vars

\* Every method on every route, handled one at a time
SeqMethodRequest == NoneInFlight /\ Receive(1, MethodRequests, MaxMethodReq)

NextSeqMethods ==
  \/ SeqMethodRequest
  \/ StepReleaseHead \/ StepReleasePutObject \/ StepSnapshotPutObject
  \/ StepArtifactGetObject
  \/ StepPurgeList \/ StepPurgeDelete
  \/ StepGroupsList

SpecSeqMethods == Init /\ [][NextSeqMethods]_vars

\* Server-computed snapshot uploads under Maven file names, one at a time
SeqNamedPut == NoneInFlight /\ ReceiveTimestamped(1, NamedSnapshotPuts, MaxNameReq)

NextSeqNamed ==
  \/ SeqNamedPut \/ Tick
  \/ StepSnapshotReadMetadata \/ StepSnapshotPutTimestampedObject
  \/ StepSnapshotReadForUpdate \/ StepSnapshotPutMetadata

SpecSeqNamed == Init /\ [][NextSeqNamed]_vars

\* Uploads and listings handled one at a time
SeqListingPut == NoneInFlight /\ Receive(1, ListingPuts, MaxListReq)
SeqListingGet == NoneInFlight /\ Receive(1, ListingGets, MaxListReq)

NextSeqListing ==
  \/ SeqListingPut \/ SeqListingGet
  \/ StepReleaseHead \/ StepReleasePutObject
  \/ StepGroupsList \/ StepArtifactsList \/ StepArtifactsGetMetadata \/ StepFilesList

SpecSeqListing == Init /\ [][NextSeqListing]_vars

\* Writes and purges under malformed Basic headers and every binding of the
\* credentials, handled one at a time
SeqMalformedRequest == NoneInFlight /\ ReceiveEnv(1, MalformedRequests, Envs, MaxMalformedReq)

NextSeqMalformed ==
  \/ SeqMalformedRequest
  \/ StepReleaseHead \/ StepReleasePutObject \/ StepSnapshotPutObject
  \/ StepPurgeList \/ StepPurgeDelete

SpecSeqMalformed == Init /\ [][NextSeqMalformed]_vars

\* Writes and purges under credentials with further colons, against a
\* password without and with a colon, handled one at a time
SeqCredentialRequest ==
  NoneInFlight /\ ReceiveEnv(1, CredentialRequests, {ConfiguredEnv, ColonPasswordEnv}, MaxCredReq)

NextSeqCredentials ==
  \/ SeqCredentialRequest
  \/ StepReleaseHead \/ StepReleasePutObject \/ StepSnapshotPutObject
  \/ StepPurgeList \/ StepPurgeDelete

SpecSeqCredentials == Init /\ [][NextSeqCredentials]_vars

\* Uploads to paths with an empty segment, handled one at a time
SeqEmptySegmentPut == NoneInFlight /\ Receive(1, EmptySegmentPuts, MaxEmptyReq)

NextSeqEmpty ==
  \/ SeqEmptySegmentPut
  \/ StepReleaseHead \/ StepReleasePutObject \/ StepSnapshotPutObject

SpecSeqEmpty == Init /\ [][NextSeqEmpty]_vars

\* Uploads of the files of one release version, handled one at a time
SeqMultiFilePut == NoneInFlight /\ Receive(1, MultiFilePuts, MaxMultiReq)

NextSeqMultiFile == SeqMultiFilePut \/ StepReleaseHead \/ StepReleasePutObject

SpecSeqMultiFile == Init /\ [][NextSeqMultiFile]_vars

\* Uploads checked by version, handled one at a time
SeqVersionedRequest == NoneInFlight /\ ReceiveVersioned(1, VersionedRequests, MaxVersionedReq)
StepCheckVersionExists == \E i \in Handlers : CheckVersionExists(i)
StepPublishPutObject == \E i \in Handlers : PublishPutObject(i)

NextSeqVersioned == SeqVersionedRequest \/ StepCheckVersionExists \/ StepPublishPutObject

SpecSeqVersioned == Init /\ [][NextSeqVersioned]_vars

\* Server-computed snapshot uploads whose store operations may fail,
\* handled one at a time
SeqSnapFailPut == NoneInFlight /\ ReceiveTimestamped(1, TimestampedPuts, MaxSnapFailReq)
StepTimestampedStoreFail == \E i \in Handlers : TimestampedStoreFail(i)

NextSeqSnapFail ==
  \/ SeqSnapFailPut \/ Tick
  \/ StepSnapshotReadMetadata \/ StepSnapshotPutTimestampedObject
  \/ StepSnapshotReadForUpdate \/ StepSnapshotPutMetadata
  \/ StepTimestampedStoreFail

SpecSeqSnapFail == Init /\ [][NextSeqSnapFail]_vars

\* Uploads and reads handled one at a time, by the two instances in turn
SeqFrameRequest ==
  NoneInFlight /\ Receive((reqCount % 2) + 1, FramePuts \cup FrameGets, MaxFrameReq)

NextSeqFrame ==
  \/ SeqFrameRequest
  \/ StepReleaseHead \/ StepReleasePutObject \/ StepSnapshotPutObject
  \/ StepArtifactGetObject \/ StepFilesList \/ StepGroupsList

SpecSeqFrame == Init /\ [][NextSeqFrame]_vars

\* A purge among neighbouring objects, handled one at a time
SeqPurgeFramePut == NoneInFlight /\ Receive(1, PurgeFramePuts, MaxPurgeFrameReq)
SeqPurgeFrame == NoneInFlight /\ Receive(1, PurgeFrameRequests, MaxPurgeFrameReq)

NextSeqPurgeFrame ==
  \/ SeqPurgeFramePut \/ SeqPurgeFrame
  \/ StepReleaseHead \/ StepReleasePutObject
  \/ StepPurgeList \/ StepPurgeListFail \/ StepPurgeDelete \/ StepPurgeDeleteFail

SpecSeqPurgeFrame == Init /\ [][NextSeqPurgeFrame]_vars

\* Uploads and downloads through both roots, handled one at a time by the
\* two instances in turn
SeqNamespaceRequest ==
  NoneInFlight /\ Receive((reqCount % 2) + 1, NamespaceRequests, MaxNamespaceReq)

NextSeqNamespace ==
  \/ SeqNamespaceRequest
  \/ StepReleaseHead \/ StepReleasePutObject \/ StepSnapshotPutObject
  \/ StepArtifactGetObject

SpecSeqNamespace == Init /\ [][NextSeqNamespace]_vars

\* ------------------------------------------------------------------------
\* Vocabulary of the properties
\* ------------------------------------------------------------------------
\* Segments of the request path below its route root
ReqParts(req) == Split(SubSeq(req.path, 4, Len(req.path)), "/")

ReqFileName(req) == ReqParts(req)[Len(ReqParts(req))]

\* The object key a version-level publish path addresses
ReqKey(req) == SubSeq(req.path, 4, Len(req.path))


\* An authenticated, completed PUT /releases at instance i
ReleasePutDone(i) ==
  /\ h[i].pc = "done"
  /\ h[i].req.method = "PUT"
  /\ StartsWith(h[i].req.path, <<"/", "releases", "/">>)
  /\ h[i].req.auth = GoodAuth

\* ------------------------------------------------------------------------
\* C1: with release uploads handled one at a time, once a primary file key
\* has been stored by a PUT that returned 200, every later PUT of that key
\* returns 409 and the stored bytes never change.
\* ------------------------------------------------------------------------
C1_RepeatRejected ==
  \A i \in Handlers :
    (/\ ReleasePutDone(i)
     /\ IsPrimaryName(ReqFileName(h[i].req))
     /\ ReqKey(h[i].req) \in DOMAIN h[i].store0)
    => h[i].status = 409

C1_BytesKept ==
  \A k \in DOMAIN store :
    IsPrimaryName(KeyFileName(k)) => k \in DOMAIN store' /\ store'[k] = store[k]

C1_ReleaseImmutable == [](C1_RepeatRejected) /\ [][C1_BytesKept]_vars

C1_Witness ==
  \E i \in Handlers :
    /\ ReleasePutDone(i)
    /\ h[i].status = 409
    /\ IsPrimaryName(ReqFileName(h[i].req))
    /\ ReqKey(h[i].req) \in DOMAIN store
    /\ store[ReqKey(h[i].req)] # h[i].req.body

\* ------------------------------------------------------------------------
\* C2: an authenticated PUT /releases of a checksum file or of a
\* maven-metadata file (on a version-level path with an accepted extension)
\* returns 200 whatever is stored at the key, and the key then holds the
\* bytes of this upload.
\* ------------------------------------------------------------------------
IsExemptUpload(req) ==
  /\ Len(ReqParts(req)) >= 4
  /\ \/ IsChecksumName(ReqFileName(req))
     \/ IsMetadataName(ReqFileName(req)) /\ hasValidExtension(ReqFileName(req))

IsSignatureUpload(req) ==
  Len(ReqParts(req)) >= 4 /\ EndsWith(ReqFileName(req), <<".", "asc">>)

C4_ReleasedUntouched ==
  [][\A k \in released : k \in DOMAIN store' /\ store'[k] = store[k]]_vars

\* ------------------------------------------------------------------------
\* C5: two release uploads of the same absent primary key that interleave
\* both pass the existence check and both return 200; every put replaces
\* what is stored, so the key holds the bytes of the put executed last.
\* ------------------------------------------------------------------------
C5_LastPutWins ==
  [][\A i \in Handlers :
       (h[i].route = "releasePut" /\ h[i].pc = "put" /\ h'[i].pc = "done")
       => /\ h'[i].status = 200
          /\ h[i].key \in DOMAIN store'
          /\ store'[h[i].key] = h[i].req.body]_vars

C5_Witness ==
  /\ \A i \in Handlers :
       /\ h[i].route = "releasePut" /\ h[i].pc = "done" /\ h[i].status = 200
       /\ IsPrimaryName(KeyFileName(h[i].key))
       /\ h[i].key \notin DOMAIN h[i].store0
  /\ h[1].key = h[2].key
  /\ h[1].req.body # h[2].req.body
  /\ store[h[1].key] = h[2].req.body

\* ------------------------------------------------------------------------
\* C6: a purge that meets no storage error and no concurrent upload
\* terminates, whatever the page sizes; afterwards no key under
\* releases/<path>/ or snapshots/<path>/ remains and the deleted array
\* holds exactly the keys that were removed, each once.
\* ------------------------------------------------------------------------
PurgeRunning(i) == h[i].route = "purge" /\ h[i].pc \in {"list", "delete"}

PurgeDone(i) == h[i].route = "purge" /\ h[i].pc = "done" /\ h[i].status = 200

UnderRoot(k, r, pathPrefix) == StartsWith(k, r \o <<"/">> \o pathPrefix \o <<"/">>)

C6_PurgePost ==
  \A i \in Handlers :
    (PurgeDone(i) /\ Len(h[i].errors) = 0)
    => /\ \A k \in DOMAIN store :
            /\ ~UnderRoot(k, <<"releases">>, h[i].prefix)
            /\ ~UnderRoot(k, <<"snapshots">>, h[i].prefix)
       /\ Range(h[i].deleted) = (DOMAIN h[i].store0) \ (DOMAIN store)
       /\ Cardinality(Range(h[i].deleted)) = Len(h[i].deleted)
       /\ h[i].body = "success:true"

C6_PurgeTerminatesClean ==
  /\ \A i \in Handlers : PurgeRunning(i) ~> PurgeDone(i)
  /\ [](C6_PurgePost)

C6_Witness ==
  \E i \in Handlers :
    /\ PurgeDone(i) /\ Len(h[i].errors) = 0
    /\ Len(h[i].deleted) = 2
    /\ \A k \in Range(h[i].deleted) : UnderRoot(k, <<"releases">>, h[i].prefix)
    /\ \E k \in DOMAIN store :
         StartsWith(k, <<"releases", "/", "com", "/", "amber", "-", "common", "/">>)

\* ------------------------------------------------------------------------
\* C7 (as stated): after a successful purge of g.a no object published
\* under group g and artifact a remains in the store.  Every object of the
\* store was published by a PUT, and one published under g and a has a key
\* that begins with <g/a as path>/.
\* ------------------------------------------------------------------------
C7_PurgeRemovesPublished ==
  \A i \in Handlers :
    (PurgeDone(i) /\ h[i].body = "success:true")
    => \A k \in DOMAIN store : ~StartsWith(k, h[i].prefix \o <<"/">>)

\* ------------------------------------------------------------------------
\* C8: purge collects failures per root.  When a list or delete call fails
\* for one root the other root is still purged completely, the keys in the
\* deleted array are gone from the store, and the response has
\* success=false with exactly one error entry per failed root.
\* ------------------------------------------------------------------------
RootFailed(hd, r) == \E n \in 1..Len(hd.errors) : hd.errors[n] = FullPrefix(r, hd.prefix)

C8_PartialFailure ==
  \A i \in Handlers :
    PurgeDone(i)
    => /\ (h[i].body = "success:false") <=> (Len(h[i].errors) > 0)
       /\ Len(h[i].errors) = Cardinality({n \in 1..Len(roots) : RootFailed(h[i], roots[n])})
       /\ \A n \in 1..Len(roots) :
            ~RootFailed(h[i], roots[n])
            => \A k \in DOMAIN store : ~UnderRoot(k, roots[n], h[i].prefix)
       /\ \A k \in Range(h[i].deleted) : k \in DOMAIN h[i].store0 /\ k \notin DOMAIN store

C8_Witness ==
  \E i \in Handlers :
    /\ PurgeDone(i)
    /\ h[i].body = "success:false"
    /\ Len(h[i].errors) = 1
    /\ RootFailed(h[i], <<"releases">>)
    /\ \E k \in DOMAIN store : UnderRoot(k, <<"releases">>, h[i].prefix)
    /\ \E k \in Range(h[i].deleted) : UnderRoot(k, <<"snapshots">>, h[i].prefix)


\* ------------------------------------------------------------------------
\* C9 (as stated): with server-computed snapshot uploads to one version
\* handled one at a time, an upload gets buildNumber 1 when no version
\* metadata is stored; when the stored timestamp equals the timestamp
\* string computed for this upload it keeps that timestamp and gets the
\* stored buildNumber + 1; otherwise it gets the new timestamp and
\* buildNumber 1.
\* ------------------------------------------------------------------------
HasSnapshotMetadata(i) ==
  /\ h[i].route = "snapshotPutTimestamped"
  /\ h[i].pc \in {"putObject", "readForUpdate", "putMetadata"} \/ (h[i].pc = "done" /\ h[i].status = 200)

C9_BuildNumberSequence ==
  \A i \in Handlers :
    HasSnapshotMetadata(i)
    => LET k  == MetadataKey(h[i].coords)
           sm == h[i].snapshotMetadata
           ts == h[i].newTimestamp
       IN  IF k \notin DOMAIN h[i].store0
           THEN TextOfValue(sm.timestamp) = ts /\ TextOfValue(sm.buildNumber) = <<"1">>
           ELSE IF h[i].store0[k].timestamp = ts
           THEN /\ TextOfValue(sm.timestamp) = ts
                /\ TextOfValue(sm.buildNumber)
                     = <<TextOf[IntOf[h[i].store0[k].buildNumber[1]] + 1]>>
           ELSE TextOfValue(sm.timestamp) = ts /\ TextOfValue(sm.buildNumber) = <<"1">>

\* ------------------------------------------------------------------------
\* C10: server-computed uploads to one snapshot version that interleave
\* can compute the same (timestamp, buildNumber); handlers holding the same
\* pair for the same file name address the same object key; and the
\* metadata document an upload writes is built from the entries that
\* upload read plus its own entry, so it replaces whatever another upload
\* wrote in between and that upload's snapshotVersion entry is lost.
\* ------------------------------------------------------------------------
C10_SamePairSameKey ==
  \A i, j \in Handlers :
    (/\ HasSnapshotMetadata(i) /\ HasSnapshotMetadata(j)
     /\ h[i].coords = h[j].coords
     /\ h[i].snapshotMetadata = h[j].snapshotMetadata)
    => h[i].key = h[j].key

EntryTexts(doc) ==
  {<<doc.snapshotVersions[n].extension, doc.snapshotVersions[n].value>> :
     n \in 1..Len(doc.snapshotVersions)}

ReadEntryTexts(i) ==
  {<<TextOfValue(h[i].snapshotVersions[n].extension), TextOfValue(h[i].snapshotVersions[n].value)>> :
     n \in 1..Len(h[i].snapshotVersions)}

OwnEntryText(i) ==
  <<parseFileName(h[i].coords.fileName).extension,
    TimestampedValue(h[i].coords, h[i].snapshotMetadata)>>

C10_MetadataWriteStep ==
  \A i \in Handlers :
    (h[i].route = "snapshotPutTimestamped" /\ h[i].pc = "putMetadata" /\ h'[i].pc = "done")
    => LET doc == store'[MetadataKey(h[i].coords)] IN
       /\ OwnEntryText(i) \in EntryTexts(doc)
       /\ EntryTexts(doc) \subseteq ReadEntryTexts(i) \cup {OwnEntryText(i)}
       /\ doc.timestamp = TextOfValue(h[i].snapshotMetadata.timestamp)
       /\ doc.buildNumber = TextOfValue(h[i].snapshotMetadata.buildNumber)

C10_MetadataRace == [](C10_SamePairSameKey) /\ [][C10_MetadataWriteStep]_vars

\* Two interleaved uploads (jar and pom) got the same pair, both objects
\* are stored, and the metadata lists only one of them
C10_Witness ==
  /\ \A i \in Handlers :
       /\ h[i].route = "snapshotPutTimestamped" /\ h[i].pc = "done" /\ h[i].status = 200
       /\ h[i].key \in DOMAIN store
       /\ MetadataKey(h[i].coords) \notin DOMAIN h[i].store0
  /\ h[1].snapshotMetadata = h[2].snapshotMetadata
  /\ h[1].coords.version = h[2].coords.version
  /\ h[1].coords.fileName # h[2].coords.fileName
  /\ OwnEntryText(1) \notin EntryTexts(store[MetadataKey(h[1].coords)])
  /\ Len(store[MetadataKey(h[1].coords)].snapshotVersions) = 1


\* ------------------------------------------------------------------------
\* Vocabulary of the upload properties
\* ------------------------------------------------------------------------
\* An authenticated, completed PUT /snapshots at instance i
SnapshotPutDone(i) ==
  /\ h[i].pc = "done"
  /\ h[i].req.method = "PUT"
  /\ StartsWith(h[i].req.path, <<"/", "snapshots", "/">>)
  /\ h[i].req.auth = GoodAuth

\* The second-to-last segment of a path of two or more segments
ReqVersion(req) == ReqParts(req)[Len(ReqParts(req)) - 1]

\* The store is what it was when the request arrived
StoreUntouched(i) == store = h[i].store0

\* The store is what it was when the request arrived except that key k now
\* holds the request body
StoredAt(i, k) ==
  /\ DOMAIN store = (DOMAIN h[i].store0) \cup {k}
  /\ store[k] = h[i].req.body
  /\ \A o \in (DOMAIN store) \ {k} : store[o] = h[i].store0[o]

\* ------------------------------------------------------------------------
\* C11: an authenticated version-level PUT /snapshots (four or more
\* segments) whose version segment does not end in -SNAPSHOT returns 400
\* and stores nothing, unless the file name contains maven-metadata, in
\* which case the body is stored and 200 is returned.
\* ------------------------------------------------------------------------
C11_SnapshotSuffixRequired ==
  \A i \in Handlers :
    (/\ SnapshotPutDone(i)
     /\ Len(ReqParts(h[i].req)) >= 4
     /\ ~EndsWith(ReqVersion(h[i].req), <<"-", "SNAPSHOT">>))
    => IF IsMetadataName(ReqFileName(h[i].req))
       THEN h[i].status = 200 /\ StoredAt(i, ReqKey(h[i].req))
       ELSE h[i].status = 400 /\ StoreUntouched(i)

C11_Witness ==
  \E i \in Handlers :
    /\ SnapshotPutDone(i)
    /\ Len(ReqParts(h[i].req)) >= 4
    /\ ReqVersion(h[i].req) = v10
    /\ ~IsMetadataName(ReqFileName(h[i].req))
    /\ h[i].status = 400
    /\ Path(<<comGroup, amber, v10, mavenMetadataXml>>) \in DOMAIN store

\* ------------------------------------------------------------------------
\* C12: for a group path of one or more segments, an authenticated
\* PUT /snapshots/{group-path}/{artifactId}/maven-metadata.xml returns 200
\* and stores the body unchanged at {group/path}/{artifactId}/maven-metadata.xml.
\* ------------------------------------------------------------------------
\* {group/path}/{artifactId}/maven-metadata.xml for the segments of a path
\* that ends in maven-metadata.xml
ArtifactMetadataKey(parts) ==
  Join(SubSeq(parts, 1, Len(parts) - 2), "/") \o <<"/">> \o parts[Len(parts) - 1]
    \o <<"/">> \o mavenMetadataXml

IsArtifactMetadataPut(req) ==
  Len(ReqParts(req)) >= 3 /\ ReqFileName(req) = mavenMetadataXml

C12_ArtifactMetadataAnyDepth ==
  \A i \in Handlers :
    (SnapshotPutDone(i) /\ IsArtifactMetadataPut(h[i].req))
    => /\ h[i].status = 200
       /\ StoredAt(i, ArtifactMetadataKey(ReqParts(h[i].req)))

\* Group paths of one, two and three segments have been written
C12_Witness ==
  /\ \E i \in Handlers :
       /\ SnapshotPutDone(i) /\ IsArtifactMetadataPut(h[i].req)
       /\ Len(ReqParts(h[i].req)) = 5
       /\ h[i].status = 200
  /\ \E k \in DOMAIN store : k = Path(<<comGroup, amber, mavenMetadataXml>>) /\ store[k] = "b2"
  /\ \E k \in DOMAIN store : k = Path(<<comGroup, iamkaf, amber, mavenMetadataXml>>)

\* ------------------------------------------------------------------------
\* C13: in the trust-caller snapshot path an authenticated PUT to a version
\* ending in -SNAPSHOT returns 200 whether or not the key exists and stores
\* the body at exactly {groupPath}/{artifactId}/{version}/{fileName}, under
\* the caller's file name; after repeated uploads the key holds the body of
\* the most recent one.
\* ------------------------------------------------------------------------
IsSnapshotVersionPut(req) ==
  Len(ReqParts(req)) >= 4 /\ EndsWith(ReqVersion(req), <<"-", "SNAPSHOT">>)

\* The key rebuilt from the segments of a version-level path
CoordinateKey(parts) ==
  Join(SubSeq(parts, 1, Len(parts) - 3), "/") \o <<"/">> \o parts[Len(parts) - 2]
    \o <<"/">> \o parts[Len(parts) - 1] \o <<"/">> \o parts[Len(parts)]

C13_TrustCallerOverwrites ==
  \A i \in Handlers :
    (SnapshotPutDone(i) /\ IsSnapshotVersionPut(h[i].req))
    => /\ h[i].status = 200
       /\ StoredAt(i, CoordinateKey(ReqParts(h[i].req)))

C13_Witness ==
  \E i \in Handlers :
    /\ SnapshotPutDone(i) /\ IsSnapshotVersionPut(h[i].req)
    /\ h[i].status = 200
    /\ LET k == CoordinateKey(ReqParts(h[i].req)) IN
       /\ k \in DOMAIN h[i].store0
       /\ h[i].store0[k] = "b1"
       /\ store[k] = "b2"

\* ------------------------------------------------------------------------
\* C14: on PUT /releases, PUT /snapshots and DELETE /api/purge a request
\* whose Authorization header is absent, does not start with "Basic ",
\* carries credentials other than the configured pair, or arrives when the
\* user name or the password is not configured, is answered 401 without
\* reaching any await: whatever its path or query, and the store is left
\* as it was.
\* ------------------------------------------------------------------------
AuthRejected(req, env) ==
  \/ req.auth = NoHeader
  \/ ~StartsWith(req.auth, <<"Basic", " ">>)
  \/ env.MAVEN_PUBLISH_USERNAME = <<>>
  \/ env.MAVEN_PUBLISH_PASSWORD = <<>>
  \/ Atob[req.auth[3]] # env.MAVEN_PUBLISH_USERNAME \o <<":">> \o env.MAVEN_PUBLISH_PASSWORD

IsGuardedRoute(i) == h[i].route \in {"releasePut", "snapshotPut", "purge"}

C14_Unauthorized ==
  \A i \in Handlers :
    (h[i].pc # "idle" /\ IsGuardedRoute(i) /\ AuthRejected(h[i].req, h[i].env))
    => /\ h[i].pc = "done"
       /\ h[i].status = 401
       /\ StoreUntouched(i)

\* A purge with the wrong password finds objects it would have deleted
C14_Witness ==
  \E i \in Handlers :
    /\ h[i].route = "purge" /\ h[i].pc = "done"
    /\ h[i].req.auth = BadAuth /\ h[i].env = ConfiguredEnv
    /\ h[i].status = 401
    /\ \E k \in DOMAIN store : UnderRoot(k, <<"releases">>, <<"com", "/", "amber">>)

\* ------------------------------------------------------------------------
\* C15 (as stated): every authenticated upload, to the releases root or to
\* the snapshots root, whose file name does not end in one of .jar .pom
\* .module .xml .sha1 .sha256 .sha512 .md5 .asc is answered 400 and nothing
\* is stored.
\* ------------------------------------------------------------------------
PutDone(i) == ReleasePutDone(i) \/ SnapshotPutDone(i)

C15_UnsupportedRejected ==
  \A i \in Handlers :
    (PutDone(i) /\ ~hasValidExtension(ReqFileName(h[i].req)))
    => h[i].status = 400 /\ StoreUntouched(i)

\* ------------------------------------------------------------------------
\* C16: a PUT /releases path of fewer than 4 segments, and a PUT /snapshots
\* path of fewer than 3 segments or of exactly 3 whose last is not
\* maven-metadata.xml, is answered 400 and stores nothing; with 4 or more
\* segments the last is the file name, the one before it the version, the
\* one before that the artifactId and the rest the group path, and the key
\* a successful upload stores is {groupPath}/{artifactId}/{version}/{fileName}.
\* ------------------------------------------------------------------------
TooShort(req) ==
  LET n == Len(ReqParts(req)) IN
  IF StartsWith(req.path, <<"/", "releases", "/">>) THEN n < 4
  ELSE n < 3 \/ (n = 3 /\ ReqFileName(req) # mavenMetadataXml)

C16_PathShape ==
  \A i \in Handlers :
    PutDone(i)
    => /\ TooShort(h[i].req) => (h[i].status = 400 /\ StoreUntouched(i))
       /\ (Len(ReqParts(h[i].req)) >= 4 /\ h[i].status = 200)
          => /\ h[i].key = CoordinateKey(ReqParts(h[i].req))
             /\ StoredAt(i, CoordinateKey(ReqParts(h[i].req)))

\* A release upload with a two-segment group path has been stored and a
\* three-segment upload is refused
C16_Witness ==
  \E i \in Handlers :
    /\ ReleasePutDone(i)
    /\ Len(ReqParts(h[i].req)) = 3
    /\ h[i].status = 400
    /\ Path(<<comGroup, iamkaf, amber, v10Snapshot, amberJar>>) \in DOMAIN store

\* ------------------------------------------------------------------------
\* C17: upload and download round trip, requests handled one at a time.
\* When an authenticated PUT /releases/P or PUT /snapshots/P with body b
\* has returned 200 the object addressed by P holds b; a GET /releases/P or
\* GET /snapshots/P returns 200 with the bytes the object addressed by P
\* holds when the request arrives, and 404 when there is none.  So a GET
\* after the PUT returns b until the key is overwritten or purged.
\* ------------------------------------------------------------------------
GetDone(i) == h[i].pc = "done" /\ h[i].req.method = "GET" /\ h[i].route = "get"

C17_PutThenGet ==
  \A i \in Handlers :
    /\ (PutDone(i) /\ h[i].status = 200)
       => (ReqKey(h[i].req) \in DOMAIN store /\ store[ReqKey(h[i].req)] = h[i].req.body)
    /\ GetDone(i)
       => IF ReqKey(h[i].req) \in DOMAIN h[i].store0
          THEN h[i].status = 200 /\ h[i].body = h[i].store0[ReqKey(h[i].req)]
          ELSE h[i].status = 404

C17_RoundTrip == [](C17_PutThenGet) /\ [][\A i \in Handlers : GetDone(i)' => store' = store]_vars

\* A GET of a snapshot path returns the body that was uploaded to it
C17_Witness ==
  \E i \in Handlers :
    /\ GetDone(i)
    /\ h[i].status = 200
    /\ h[i].body = "b2"
    /\ h[i].req.path = <<"/", "snapshots", "/">> \o SnapshotJarPath

\* ------------------------------------------------------------------------
\* Vocabulary of the catalog properties
\* ------------------------------------------------------------------------
ArtifactsDone(i) == h[i].route = "artifacts" /\ h[i].pc = "done" /\ h[i].req.group # <<>>

\* The names of the entries an /api/artifacts response carries
EntryNames(i) == {h[i].data[n].name : n \in 1..Len(h[i].data)}

\* The immediate children of a group path: the segment that follows the
\* group path in the keys that have a further segment
ChildrenOf(st, groupPath) ==
  {Split(DropPrefix(k, groupPath \o <<"/">>), "/")[1] :
     k \in {k \in DOMAIN st :
              /\ StartsWith(k, groupPath \o <<"/">>)
              /\ Len(Split(DropPrefix(k, groupPath \o <<"/">>), "/")) >= 2}}

VisibleChildrenOf(st, groupPath) == {c \in ChildrenOf(st, groupPath) : c[1] # "."}

\* ------------------------------------------------------------------------
\* C18 (as stated): for every groupId g and artifactId a not starting with
\* ".", once a file has been published under group g and artifact a,
\* GET /api/artifacts?group=g returns an entry whose name is a.  Every
\* object of the store was published by a PUT, so the artifacts published
\* under g are the children of g's path that do not start with ".".
\* ------------------------------------------------------------------------
C18_PublishedIsListed ==
  \A i \in Handlers :
    ArtifactsDone(i)
    => /\ h[i].status = 200
       /\ VisibleChildrenOf(h[i].store0, ReplaceDots(h[i].req.group)) \subseteq EntryNames(i)

\* ------------------------------------------------------------------------
\* C19 (as stated): GET /api/artifacts?group=g returns one entry per
\* immediate child prefix of the group path whose name does not start
\* with ".", and an entry's isArtifact is true exactly when the key
\* {groupPath}/{child}/maven-metadata.xml is in the store (requests handled
\* one at a time, so the store does not change during the request).
\* ------------------------------------------------------------------------
C19_OneEntryPerChild ==
  \A i \in Handlers :
    ArtifactsDone(i)
    => LET groupPath == ReplaceDots(h[i].req.group) IN
       /\ h[i].status = 200
       /\ EntryNames(i) = VisibleChildrenOf(h[i].store0, groupPath)
       /\ Len(h[i].data) = Cardinality(EntryNames(i))
       /\ \A n \in 1..Len(h[i].data) :
            h[i].data[n].isArtifact
              <=> (groupPath \o <<"/">> \o h[i].data[n].name \o <<"/">> \o mavenMetadataXml)
                    \in DOMAIN h[i].store0

\* ------------------------------------------------------------------------
\* C20 (as stated): GET /api/versions returns 404 when the artifact's
\* maven-metadata.xml is absent and 500 when its versions list cannot be
\* read; otherwise it returns every listed version exactly once, with
\* latest=true exactly for the version equal to the metadata's latest
\* pointer and release=true exactly for the version equal to its release
\* pointer.
\* ------------------------------------------------------------------------
VersionsDone(i) ==
  /\ h[i].route = "versions" /\ h[i].pc = "done"
  /\ h[i].req.group # <<>> /\ h[i].req.artifact # <<>>

\* How often x occurs in the sequence q
Occurrences(q, x) == Cardinality({n \in 1..Len(q) : q[n] = x})

C20_VersionsAnnotated ==
  \A i \in Handlers :
    VersionsDone(i)
    => LET k == ReplaceDots(h[i].req.group) \o <<"/">> \o h[i].req.artifact
                  \o <<"/">> \o mavenMetadataXml
       IN
       IF k \notin DOMAIN h[i].store0 THEN h[i].status = 404
       ELSE LET doc      == h[i].store0[k]
                returned == [n \in 1..Len(h[i].data) |-> h[i].data[n].version]
            IN
            IF doc.versions = <<>> THEN h[i].status = 500
            ELSE /\ h[i].status = 200
                 /\ Len(returned) = Len(doc.versions)
                 /\ \A m \in 1..Len(doc.versions) :
                      Occurrences(returned, Str(doc.versions[m]))
                        = Occurrences(doc.versions, doc.versions[m])
                 /\ \A n \in 1..Len(h[i].data) :
                      /\ h[i].data[n].latest <=> (TextOfValue(h[i].data[n].version) = doc.latest)
                      /\ h[i].data[n].release <=> (TextOfValue(h[i].data[n].version) = doc.release)

\* ------------------------------------------------------------------------
\* C21: GET /api/latest answers with the latest pointer of the artifact's
\* maven-metadata.xml when the document has one, otherwise with its release
\* pointer, with an error and no version when it has neither, and with 404
\* when no metadata object is stored.
\* ------------------------------------------------------------------------
LatestDone(i) ==
  /\ h[i].route = "latest" /\ h[i].pc = "done"
  /\ h[i].req.group # <<>> /\ h[i].req.artifact # <<>>

\* The pointer the document holds: latest, else release, else nothing
PointerOf(doc) == IF doc.latest # <<>> THEN doc.latest ELSE doc.release

C21_LatestPointer ==
  \A i \in Handlers :
    LatestDone(i) =>
      LET key == ArtifactMetadataPathOf(ReplaceDots(h[i].req.group), h[i].req.artifact) IN
      IF key \notin DOMAIN store THEN h[i].status = 404
      ELSE IF PointerOf(store[key]) = <<>> THEN h[i].status >= 400
      ELSE /\ h[i].status = 200
           /\ h[i].data = Str(PointerOf(store[key]))

\* The same for documents whose pointers are not numeric text
C21_LatestPointerText ==
  \A i \in Handlers :
    LatestDone(i) =>
      LET key == ArtifactMetadataPathOf(ReplaceDots(h[i].req.group), h[i].req.artifact) IN
      IF key \notin DOMAIN store THEN h[i].status = 404
      ELSE IF PointerOf(store[key]) = <<>> THEN h[i].status >= 400
      ELSE IsNumericText(PointerOf(store[key])) \/
             /\ h[i].status = 200
             /\ h[i].data = Str(PointerOf(store[key]))

\* ------------------------------------------------------------------------
\* C22: the version sort orders versions of dot-separated integer components
\* with an optional "+build" suffix descending by the integer components of
\* the part before "+", missing trailing components counting as 0; the
\* sorted list holds the versions of the input, each as often as the input.
\* ------------------------------------------------------------------------
\* The n-th integer component of the part before "+", 0 when it is missing
Component(text, n) ==
  LET parts == Split(Split(text, "+")[1], ".")
  IN  IF n <= Len(parts) THEN IntOf[parts[n][1]] ELSE 0

\* a precedes b in the required order, or ties with it
NotBelow(a, b) ==
  \/ \A n \in 1..3 : Component(a, n) = Component(b, n)
  \/ \E n \in 1..3 : /\ Component(a, n) > Component(b, n)
                      /\ \A m \in 1..(n - 1) : Component(a, m) = Component(b, m)

IsDescending(versions) ==
  \A n \in 1..(Len(versions) - 1) :
    NotBelow(versions[n].version.v, versions[n + 1].version.v)

ListedVersions == store[ArtifactMetadataPath].versions

SameVersions(versions) ==
  /\ Len(versions) = Len(ListedVersions)
  /\ \A x \in SortedVersions :
       Cardinality({n \in 1..Len(versions) : versions[n].version.v = x})
         = Cardinality({n \in 1..Len(ListedVersions) : ListedVersions[n] = x})

\* The sort of handleGetVersions
C22_VersionSort ==
  \A i \in Handlers :
    (h[i].route = "versions" /\ h[i].pc = "done") =>
      /\ h[i].status = 200
      /\ SameVersions(h[i].data)
      /\ IsDescending(h[i].data)

\* The sort of the artifact page, applied to the response
C22_PageSort ==
  \A i \in Handlers :
    (h[i].route = "versions" /\ h[i].pc = "displayed") =>
      /\ SameVersions(h[i].data)
      /\ IsDescending(h[i].data)

\* ------------------------------------------------------------------------
\* C23: on every route, when a store operation fails while a request is
\* handled, no exception leaves fetch and the response is 500.
\* ------------------------------------------------------------------------
ApiRoutes == {"groups", "artifacts", "versions", "files", "latest"}

\* A store operation rejected while instance i handled its request
StoreFailed(i) == h[i].failed \/ Len(h[i].errors) > 0

C23_StoreFailureIs500 ==
  \A i \in Handlers :
    StoreFailed(i) =>
      /\ h[i].pc # "thrown"
      /\ h[i].pc = "done" => h[i].status = 500

\* The same on the /api GET routes alone
C23_ApiFailureIs500 ==
  \A i \in Handlers :
    (StoreFailed(i) /\ h[i].route \in ApiRoutes) =>
      h[i].pc = "done" /\ h[i].status = 500

\* A failure on a publish or download route leaves fetch as an exception
C23_PublishFailureEscapes ==
  \A i \in Handlers :
    (StoreFailed(i) /\ h[i].route \in {"releasePut", "snapshotPut", "get"}) =>
      h[i].pc = "thrown"

\* A failure during a purge is reported in a 200 response
C23_PurgeFailureIs200 ==
  \A i \in Handlers :
    (StoreFailed(i) /\ h[i].route = "purge" /\ h[i].pc = "done") => h[i].status = 200

\* ------------------------------------------------------------------------
\* C24: after a release upload of a file of version v of (group, artifact)
\* returned 200, the artifact-level maven-metadata.xml of (group, artifact)
\* lists v among its versions and has latest = release = v.
\* ------------------------------------------------------------------------
\* The artifact-level metadata key of a version-level path
ArtifactMetadataOf(parts) ==
  Join(SubSeq(parts, 1, Len(parts) - 3), "/") \o <<"/">> \o parts[Len(parts) - 2]
    \o <<"/">> \o mavenMetadataXml

IsReleaseFilePut(req) ==
  Len(ReqParts(req)) >= 4 /\ ~Includes(ReqFileName(req), <<"maven", "-", "metadata">>)

C24_ReleaseUpdatesMetadata ==
  \A i \in Handlers :
    (ReleasePutDone(i) /\ h[i].status = 200 /\ IsReleaseFilePut(h[i].req))
    => LET metadataKey == ArtifactMetadataOf(ReqParts(h[i].req))
           v           == ReqVersion(h[i].req)
       IN  /\ metadataKey \in DOMAIN store
           /\ v \in Range(store[metadataKey].versions)
           /\ store[metadataKey].latest = v
           /\ store[metadataKey].release = v

\* No release upload writes any key but the one it addresses
C24_ReleaseWritesOneKey ==
  \A i \in Handlers :
    (ReleasePutDone(i) /\ h[i].status = 200 /\ IsReleaseFilePut(h[i].req))
    => StoredAt(i, CoordinateKey(ReqParts(h[i].req)))

\* ------------------------------------------------------------------------
\* C25: an OPTIONS request to any path is answered 204 with the CORS headers
\* and changes nothing; a request of any other method that its route does
\* not declare (PUT and GET under /releases/ and /snapshots/, DELETE on
\* /api/purge, GET elsewhere) is answered 405 and leaves the store unchanged.
\* ------------------------------------------------------------------------
DeclaredMethods(path) ==
  IF \/ StartsWith(path, <<"/", "releases", "/">>)
     \/ StartsWith(path, <<"/", "snapshots", "/">>)
  THEN {"PUT", "GET"}
  ELSE IF path = <<"/", "api", "/", "purge">> THEN {"DELETE"}
  ELSE {"GET"}

C25_MethodsByRoute ==
  \A i \in Handlers :
    h[i].pc # "idle" =>
      /\ h[i].req.method = "OPTIONS" =>
            /\ h[i].pc = "done" /\ h[i].status = 204 /\ h[i].headers = "corsHeaders"
            /\ StoreUntouched(i)
      /\ h[i].req.method \notin DeclaredMethods(h[i].req.path) \cup {"OPTIONS"} =>
            /\ h[i].pc = "done" /\ h[i].status = 405
            /\ StoreUntouched(i)

\* A DELETE of a stored release file is answered 405 and the file stays
C25_Witness ==
  \E i \in Handlers :
    /\ h[i].pc = "done" /\ h[i].status = 405
    /\ h[i].req.method = "DELETE"
    /\ StartsWith(h[i].req.path, <<"/", "releases", "/">>)
    /\ ReqKey(h[i].req) \in DOMAIN store

\* An OPTIONS request to the purge route was answered while objects were stored
C25_WitnessOptions ==
  \E i \in Handlers :
    /\ h[i].pc = "done" /\ h[i].status = 204
    /\ h[i].req.path = <<"/", "api", "/", "purge">>
    /\ store # <<>>

\* ------------------------------------------------------------------------
\* C26: in the server-computing snapshot upload, a file sent as
\* {artifactId}-{base}-SNAPSHOT.{ext} to version {base}-SNAPSHOT is stored as
\* {artifactId}-{base}-{timestamp}-{buildNumber}.{ext}, and the response
\* names the stored file.
\* ------------------------------------------------------------------------
TimestampedPutDone(i) ==
  h[i].route = "snapshotPutTimestamped" /\ h[i].pc = "done" /\ h[i].status = 200

\* The file was sent under its Maven name
HasMavenName(c) ==
  \E ext \in {"jar", "pom"} : c.fileName = SnapshotFileName(c.artifactId, c.version, ext)

\* {artifactId}-{base}-{timestamp}-{buildNumber}.{ext}
ResolvedName(c, sm) ==
  c.artifactId \o <<"-">> \o SubSeq(c.version, 1, Len(c.version) - 2) \o <<"-">>
    \o sm.timestamp.v \o <<"-">> \o sm.buildNumber.v
    \o <<".", c.fileName[Len(c.fileName)]>>

C26_TimestampedName ==
  \A i \in Handlers :
    (TimestampedPutDone(i) /\ HasMavenName(h[i].coords)) =>
      LET c    == h[i].coords
          name == ResolvedName(c, h[i].snapshotMetadata)
      IN  /\ VersionFileKey(c.groupPath, c.artifactId, c.version, name) \in DOMAIN store
          /\ h[i].data.file = name

\* The response names the file the upload stored
C26_ReturnedNameIsStored ==
  \A i \in Handlers :
    TimestampedPutDone(i) =>
      LET c == h[i].coords IN
      /\ VersionFileKey(c.groupPath, c.artifactId, c.version, h[i].data.file) \in DOMAIN store
      /\ h[i].key = VersionFileKey(c.groupPath, c.artifactId, c.version, h[i].data.file)

\* ------------------------------------------------------------------------
\* C27: after any sequence of server-computing snapshot uploads to one
\* version, the version's metadata holds at most one snapshotVersion entry
\* per file extension, for jar and for every other extension.
\* ------------------------------------------------------------------------
StoredMetadataKeys == {k \in DOMAIN store : KeyFileName(k) = mavenMetadataXml}

EntriesOf(k, extension) ==
  {n \in 1..Len(store[k].snapshotVersions) : store[k].snapshotVersions[n].extension = extension}

C27_OneEntryPerExtension ==
  \A k \in StoredMetadataKeys :
    \A extension \in {<<"jar">>, <<"pom">>} : Cardinality(EntriesOf(k, extension)) <= 1

\* The same for the jar alone
C27_OneJarEntry ==
  \A k \in StoredMetadataKeys : Cardinality(EntriesOf(k, <<"jar">>)) <= 1

\* Every upload of a pom adds an entry
C27_PomEntriesGrow ==
  [][\A i \in Handlers :
       (SnapshotPutMetadata(i) /\ parseFileName(h[i].coords.fileName).extension = <<"pom">>)
       => LET k == MetadataKey(h[i].coords) IN
          Cardinality({n \in 1..Len(store'[k].snapshotVersions) :
                         store'[k].snapshotVersions[n].extension = <<"pom">>})
            = 1 + Cardinality({n \in 1..Len(h[i].snapshotVersions) :
                                 h[i].snapshotVersions[n].extension.v = <<"pom">>})]_vars

\* ------------------------------------------------------------------------
\* C28: in every maven-metadata.xml document that updateSnapshotMetadata
\* writes, the latest and the release value are members of the document's
\* versions list.
\* ------------------------------------------------------------------------
C28_PointersAreListed ==
  \A k \in StoredMetadataKeys :
    /\ store[k].latest \in Range(store[k].versions)
    /\ store[k].release \in Range(store[k].versions)

\* The pointers are the -SNAPSHOT version of the path, the listed versions
\* are the timestamped values of the snapshotVersion entries
C28_PointersAreTheSnapshotVersion ==
  \A k \in StoredMetadataKeys :
    /\ store[k].latest = store[k].version /\ store[k].release = store[k].version
    /\ EndsWith(store[k].version, <<"-", "SNAPSHOT">>)
    /\ \A n \in 1..Len(store[k].versions) :
         store[k].versions[n] = store[k].snapshotVersions[n].value

\* ------------------------------------------------------------------------
\* C29: GET /api/files, GET /api/groups and GET /api/artifacts return every
\* matching entry whose name does not start with ".", also when the entries
\* do not fit one listing page.
\* ------------------------------------------------------------------------
\* The first segments of the keys that have a further segment
TopLevelGroups(st) == {Split(k, "/")[1] : k \in {k \in DOMAIN st : Len(Split(k, "/")) >= 2}}

\* The names of the objects under a version prefix
FilesUnder(st, prefix) == {DropPrefix(k, prefix) : k \in {k \in DOMAIN st : StartsWith(k, prefix)}}

NotDotted(names) == {name \in names : name # <<>> /\ name[1] # "."}

ReqVersionPrefix(req) == VersionPrefix(ReplaceDots(req.group), req.artifact, req.version)

ListingDone(i) ==
  /\ h[i].pc = "done"
  /\ \/ h[i].route = "groups"
     \/ h[i].route = "artifacts" /\ h[i].req.group # <<>>
     \/ h[i].route = "files" /\ h[i].req.version # <<>>

\* The entries a listing has to return and the entries the response carries
Expected(i) ==
  IF h[i].route = "groups" THEN NotDotted(TopLevelGroups(h[i].store0))
  ELSE IF h[i].route = "artifacts"
  THEN VisibleChildrenOf(h[i].store0, ReplaceDots(h[i].req.group))
  ELSE NotDotted(FilesUnder(h[i].store0, ReqVersionPrefix(h[i].req)))

Returned(i) ==
  IF h[i].route = "groups" THEN Range(h[i].data) ELSE EntryNames(i)

C29_ListingsExhaustive ==
  \A i \in Handlers :
    ListingDone(i) => h[i].status = 200 /\ Expected(i) \subseteq Returned(i)

\* The entries, dotted ones included, that the store lists for the request
ListedEntries(i) ==
  IF h[i].route = "groups" THEN TopLevelGroups(h[i].store0)
  ELSE IF h[i].route = "artifacts" THEN ChildrenOf(h[i].store0, ReplaceDots(h[i].req.group))
  ELSE FilesUnder(h[i].store0, ReqVersionPrefix(h[i].req))

\* A listing that fits one page is returned whole, and no response carries
\* an entry that is not in the store
C29_OnePageListings ==
  \A i \in Handlers :
    ListingDone(i) =>
      /\ h[i].status = 200
      /\ Returned(i) \subseteq Expected(i)
      /\ Cardinality(ListedEntries(i)) <= ListLimit => Returned(i) = Expected(i)

\* ------------------------------------------------------------------------
\* C30: a publish or purge request whose Authorization header starts with
\* "Basic " but is malformed (a token that is not base64, or a decoded text
\* without ":") is answered 401 and the store is unchanged.
\* ------------------------------------------------------------------------
IsBase64(token) == token \in DOMAIN Atob

IsMalformedBasic(auth) ==
  /\ StartsWith(auth, <<"Basic", " ">>)
  /\ \/ ~IsBase64(TokenOf(auth))
     \/ ~Includes(Atob[TokenOf(auth)], <<":">>)

C30_MalformedIs401 ==
  \A i \in Handlers :
    (h[i].pc # "idle" /\ IsGuardedRoute(i) /\ IsMalformedBasic(h[i].req.auth))
    => /\ h[i].pc = "done"
       /\ h[i].status = 401
       /\ StoreUntouched(i)

\* A token that decodes to a text without ":" is answered 401
C30_NoSeparatorIs401 ==
  \A i \in Handlers :
    (/\ h[i].pc # "idle" /\ IsGuardedRoute(i) /\ IsMalformedBasic(h[i].req.auth)
     /\ IsBase64(TokenOf(h[i].req.auth)))
    => /\ h[i].pc = "done"
       /\ h[i].status = 401
       /\ StoreUntouched(i)

\* A token that is not base64 makes the request end in an exception, without
\* a response, whenever both credentials are configured
C30_NotBase64Throws ==
  \A i \in Handlers :
    (/\ h[i].pc # "idle" /\ IsGuardedRoute(i)
     /\ StartsWith(h[i].req.auth, <<"Basic", " ">>) /\ ~IsBase64(TokenOf(h[i].req.auth)))
    => /\ StoreUntouched(i)
       /\ IF h[i].env = ConfiguredEnv THEN h[i].pc = "thrown"
          ELSE h[i].pc = "done" /\ h[i].status = 401

\* ------------------------------------------------------------------------
\* C31 (as stated): a request is accepted if and only if the decoded
\* credential text equals "<configured username>:<configured password>"
\* exactly: text after the password is rejected, and a configured password
\* that holds ":" is accepted when it is sent as it is.
\* ------------------------------------------------------------------------
Decoded(req) == Atob[TokenOf(req.auth)]

ConfiguredCredential(env) ==
  env.MAVEN_PUBLISH_USERNAME \o <<":">> \o env.MAVEN_PUBLISH_PASSWORD

Accepted(i) == ~(h[i].pc = "done" /\ h[i].status = 401)

C31_ExactCredential ==
  \A i \in Handlers :
    (h[i].pc # "idle" /\ IsGuardedRoute(i) /\ h[i].req.auth \in CredentialHeaders)
    => (Accepted(i) <=> Decoded(h[i].req) = ConfiguredCredential(h[i].env))

\* What the code compares: the first two ":"-separated fields of the decoded
\* text, whatever follows them
C31_FirstTwoFields ==
  \A i \in Handlers :
    (h[i].pc # "idle" /\ IsGuardedRoute(i) /\ h[i].req.auth \in CredentialHeaders)
    => LET fields == Split(Decoded(h[i].req), ":") IN
       Accepted(i) <=> /\ Len(fields) >= 2
                       /\ fields[1] = h[i].env.MAVEN_PUBLISH_USERNAME
                       /\ fields[2] = h[i].env.MAVEN_PUBLISH_PASSWORD

\* A password with a colon is never accepted, not even when sent as it is
C31_ColonPasswordLockedOut ==
  \A i \in Handlers :
    (h[i].pc # "idle" /\ IsGuardedRoute(i) /\ h[i].env = ColonPasswordEnv)
    => ~Accepted(i)

\* A longer password (no further colon) is rejected
C31_LongerPasswordRejected ==
  \A i \in Handlers :
    (h[i].pc # "idle" /\ IsGuardedRoute(i) /\ h[i].req.auth = LongerPasswordAuth)
    => ~Accepted(i)

\* ------------------------------------------------------------------------
\* C32 (as stated): every key stored by a successful publish has a
\* non-empty group path, artifactId, version and file name: a PUT whose path
\* holds an empty segment is answered 400 and nothing is stored.
\* ------------------------------------------------------------------------
HasEmptySegment(req) == \E n \in 1..Len(ReqParts(req)) : ReqParts(req)[n] = <<>>

KeySegments(k) == Split(k, "/")

C32_NoEmptySegment ==
  /\ \A i \in Handlers :
       (PutDone(i) /\ HasEmptySegment(h[i].req))
       => (h[i].status = 400 /\ StoreUntouched(i))
  /\ \A k \in DOMAIN store :
       \A n \in 1..Len(KeySegments(k)) : KeySegments(k)[n] # <<>>

\* The empty segments that other rules happen to reject: an empty file name
\* on the releases root (no valid extension), and an empty version on the
\* snapshots root unless the file is a metadata file
C32_RejectedByOtherRules ==
  \A i \in Handlers :
    /\ (ReleasePutDone(i) /\ ReqFileName(h[i].req) = <<>>)
       => (h[i].status = 400 /\ StoreUntouched(i))
    /\ (SnapshotPutDone(i) /\ Len(ReqParts(h[i].req)) >= 4
          /\ ReqVersion(h[i].req) = <<>> /\ ReqFileName(h[i].req) = amberJar)
       => (h[i].status = 400 /\ StoreUntouched(i))

\* Every other empty segment is taken as a coordinate: the body is stored
\* under the path as it was sent
C32_EmptySegmentStored ==
  \A i \in Handlers :
    (PutDone(i) /\ HasEmptySegment(h[i].req) /\ h[i].status = 200)
    => StoredAt(i, ReqKey(h[i].req))

C32_EmptyGroupStored ==
  \A i \in Handlers :
    (PutDone(i) /\ Len(ReqParts(h[i].req)) = 4 /\ ReqParts(h[i].req)[1] = <<>>)
    => /\ h[i].status \in {200, 409}
       /\ <<"/">> \o Path(<<amber, v10Snapshot, amberJar>>) \in DOMAIN store

\* ------------------------------------------------------------------------
\* C33: the existence check of PUT /releases looks at the exact key only.
\* With uploads handled one at a time, once a primary file of a version is
\* stored, the authenticated PUT of another primary file name of that
\* version that is not stored yet returns 200 and stores its body, in any
\* order of the uploads.
\* ------------------------------------------------------------------------
SiblingStored(i) ==
  \E k \in DOMAIN h[i].store0 :
    /\ k # h[i].key
    /\ KeyVersionPrefix(k) = KeyVersionPrefix(h[i].key)
    /\ IsPrimaryName(KeyFileName(k))

C33_SiblingFilesAccepted ==
  \A i \in Handlers :
    (/\ ReleasePutDone(i)
     /\ IsPrimaryName(ReqFileName(h[i].req))
     /\ ReqKey(h[i].req) \notin DOMAIN h[i].store0
     /\ SiblingStored(i))
    => (h[i].status = 200 /\ StoredAt(i, ReqKey(h[i].req)))

\* The main jar is accepted last, after the pom, the sources jar and the
\* javadoc jar of its version
C33_Witness ==
  \E i \in Handlers :
    /\ ReleasePutDone(i) /\ h[i].status = 200
    /\ ReqFileName(h[i].req) = amberJar
    /\ SiblingStored(i)
    /\ Cardinality(DOMAIN h[i].store0) = 3
    /\ {KeyFileName(k) : k \in DOMAIN store} = VersionFiles

\* ------------------------------------------------------------------------
\* C34: on the routes that check by version (PUT /publish and the earlier
\* PUT /releases), an authenticated upload to a version-level path of a
\* file with an accepted extension that is neither .sha1/.sha256 nor a
\* maven-metadata file returns 409 if and only if an object of any kind is
\* stored under {groupPath}/{artifactId}/{version}/, and is stored with 200
\* otherwise; so with uploads handled one at a time a version directory
\* never holds two such files, nor one that was added after a checksum.
\* ------------------------------------------------------------------------
VersionedPutDone(i) ==
  /\ h[i].route = "publishPut" /\ h[i].pc = "done"
  /\ h[i].req.method = "PUT" /\ h[i].req.auth = GoodAuth
  /\ Len(ReqParts(h[i].req)) >= 4

HasEarlierExtension(f) ==
  \E x \in 1..Len(timestampedValidExtensions) : EndsWith(f, timestampedValidExtensions[x])

IsVersionChecked(f) ==
  /\ HasEarlierExtension(f)
  /\ ~EndsWith(f, <<".", "sha1">>) /\ ~EndsWith(f, <<".", "sha256">>)
  /\ ~IsMetadataName(f)

VersionPresent(st, k) == \E o \in DOMAIN st : StartsWith(o, KeyVersionPrefix(k))

PublishKey(req) ==
  LET parts == Split(req.path, "/") IN Join(SubSeq(parts, 3, Len(parts)), "/")

IsTimestampedPut(i) == h[i].route = "snapshotPutTimestamped"

C35_Stages ==
  \A i \in Handlers :
    IsTimestampedPut(i) =>
      /\ h[i].pc \in {"readMetadata", "putObject"} => StoreUntouched(i)
      /\ h[i].pc \in {"readForUpdate", "putMetadata"} => StoredAt(i, h[i].key)
      /\ (h[i].pc = "done" /\ h[i].status = 200) =>
           LET m == MetadataKey(h[i].coords) IN
           /\ DOMAIN store = (DOMAIN h[i].store0) \cup {h[i].key, m}
           /\ store[h[i].key] = h[i].req.body
           /\ store[m].timestamp = TextOfValue(h[i].data.timestamp)
           /\ store[m].buildNumber = TextOfValue(h[i].data.buildNumber)
           /\ \A o \in (DOMAIN h[i].store0) \ {h[i].key, m} : store[o] = h[i].store0[o]

C35_FailureStep ==
  \A i \in Handlers :
    (IsTimestampedPut(i) /\ h[i].pc \in {"readForUpdate", "putMetadata"} /\ h'[i].pc = "thrown")
    => /\ store' = store
       /\ h[i].key \in DOMAIN store' /\ store'[h[i].key] = h[i].req.body
       /\ LET m == MetadataKey(h[i].coords) IN
          IF m \in DOMAIN h[i].store0
          THEN m \in DOMAIN store' /\ store'[m] = h[i].store0[m]
          ELSE m \notin DOMAIN store'

C35_ObjectThenMetadata == [](C35_Stages) /\ [][C35_FailureStep]_vars

\* A failed upload left its object next to the metadata of the upload
\* before it
C35_Witness ==
  \E i \in Handlers :
    /\ IsTimestampedPut(i) /\ h[i].pc = "thrown" /\ h[i].failed
    /\ h[i].key \in DOMAIN store /\ h[i].key \notin DOMAIN h[i].store0
    /\ LET m == MetadataKey(h[i].coords) IN
       /\ m \in DOMAIN h[i].store0
       /\ store[m] = h[i].store0[m]
       /\ TimestampedValue(h[i].coords, h[i].snapshotMetadata)
            \notin Range(store[m].versions)

\* A completed upload whose pair is in the metadata it rewrote
C35_WitnessCompleted ==
  \E i \in Handlers :
    /\ IsTimestampedPut(i) /\ h[i].pc = "done" /\ h[i].status = 200
    /\ MetadataKey(h[i].coords) \in DOMAIN h[i].store0
    /\ store[MetadataKey(h[i].coords)] # h[i].store0[MetadataKey(h[i].coords)]

\* ------------------------------------------------------------------------
\* C36 (as stated): with a non-decreasing clock and uploads handled one at
\* a time, no two server-computing uploads of the same file name to the
\* same snapshot version get the same (timestamp, buildNumber) pair, so no
\* upload overwrites the object of an earlier upload.
\* ------------------------------------------------------------------------
C36_NoOverwriteStep ==
  \A i \in Handlers :
    (IsTimestampedPut(i) /\ h[i].pc = "putObject" /\ h'[i].pc = "readForUpdate")
    => h[i].key \notin DOMAIN store

C36_UniquePairs == [][C36_NoOverwriteStep]_vars

\* What holds: an object is overwritten only by an upload of the same
\* second, the one the stored metadata is from
C36_OverwriteStep ==
  \A i \in Handlers :
    (IsTimestampedPut(i) /\ h[i].pc = "putObject" /\ h'[i].pc = "readForUpdate"
       /\ h[i].key \in DOMAIN store)
    => LET m == MetadataKey(h[i].coords) IN
       /\ m \in DOMAIN store
       /\ store[m].timestamp = TextOfValue(h[i].snapshotMetadata.timestamp)

C36_OverwriteWithinOneSecond == [][C36_OverwriteStep]_vars

\* What holds: every upload gets buildNumber 1
C36_BuildNumberAlwaysOne ==
  \A i \in Handlers :
    (IsTimestampedPut(i) /\ h[i].pc \in {"putObject", "readForUpdate", "putMetadata", "done"}
       /\ h[i].snapshotMetadata # NoSnapshotMetadata)
    => h[i].snapshotMetadata.buildNumber = Num(<<"1">>)

\* ------------------------------------------------------------------------
\* C37: in the final worker, with requests handled one at a time, a PUT
\* /releases or PUT /snapshots that is answered 200 writes its own key and
\* no other, a PUT answered 400, 401 or 409 writes nothing and no GET
\* changes the store; so a GET /api/files repeated on an unchanged store
\* returns the same entries.
\* ------------------------------------------------------------------------
PutAnswered200(hd) == hd.pc = "done" /\ hd.req.method = "PUT" /\ hd.status = 200

C37_Step ==
  \A i \in Handlers :
    h'[i] # h[i] =>
      IF PutAnswered200(h'[i])
      THEN LET k == ReqKey(h'[i].req) IN
           /\ DOMAIN store' = (DOMAIN store) \cup {k}
           /\ store'[k] = h'[i].req.body
           /\ \A o \in (DOMAIN store) \ {k} : store'[o] = store[o]
      ELSE store' = store

FilesDone(i) == h[i].route = "files" /\ h[i].pc = "done" /\ h[i].status = 200

C37_FilesRepeatable ==
  \A i, j \in Handlers :
    (FilesDone(i) /\ FilesDone(j) /\ h[i].req = h[j].req /\ h[i].store0 = h[j].store0)
    => h[i].data = h[j].data

C37_FrameEffect == [][C37_Step]_vars /\ [](C37_FilesRepeatable)

\* The file list of a published version, read twice
C37_Witness ==
  /\ FilesDone(1) /\ FilesDone(2)
  /\ h[1].store0 = store /\ h[2].store0 = store
  /\ Len(h[1].data) > 0 /\ h[1].data = h[2].data

\* An upload refused with 409 after the key was stored
C37_WitnessRefused ==
  \E i \in Handlers :
    /\ ReleasePutDone(i) /\ h[i].status = 409
    /\ store = h[i].store0
    /\ store[ReqKey(h[i].req)] # h[i].req.body

\* ------------------------------------------------------------------------
\* C38: a purge of prefix g.a changes no key outside releases/<g/a>/ and
\* snapshots/<g/a>/: the objects of a sibling artifact whose name starts
\* with the purged name, of the parent group, of other groups and outside
\* the two roots stay as they are; a prefix whose path form has fewer than
\* 3 characters is answered 400 and deletes nothing.
\* ------------------------------------------------------------------------
InPurgeScope(k, pathPrefix) ==
  UnderRoot(k, <<"releases">>, pathPrefix) \/ UnderRoot(k, <<"snapshots">>, pathPrefix)

C38_Step ==
  \A i \in Handlers :
    (h'[i].route = "purge" /\ h'[i] # h[i])
    => /\ DOMAIN store' \subseteq DOMAIN store
       /\ \A k \in DOMAIN store :
            InPurgeScope(k, ReplaceDots(h'[i].req.query))
            \/ (k \in DOMAIN store' /\ store'[k] = store[k])

C38_TooShort ==
  \A i \in Handlers :
    (h[i].route = "purge" /\ h[i].pc # "idle" /\ h[i].req.auth = GoodAuth
       /\ CharLen(ReplaceDots(h[i].req.query)) < 3)
    => /\ h[i].pc = "done" /\ h[i].status = 400
       /\ StoreUntouched(i)

C38_PurgeFrame == [][C38_Step]_vars /\ [](C38_TooShort)

\* A purge of com.amber that deleted objects and left the sibling
\* amber-common and another artifact of the group
C38_Witness ==
  \E i \in Handlers :
    /\ PurgeDone(i) /\ h[i].req.query = <<"com", ".", "amber">>
    /\ Len(h[i].deleted) > 0
    /\ \E k \in DOMAIN store : UnderRoot(k, <<"releases">>, <<"com", "/">> \o amberCommon)
    /\ \A k \in DOMAIN h[i].store0 :
         k \in DOMAIN store \/ InPurgeScope(k, <<"com", "/", "amber">>)

\* A prefix of two characters is refused with objects in the store
C38_WitnessTooShort ==
  \E i \in Handlers :
    /\ h[i].route = "purge" /\ h[i].pc = "done" /\ h[i].status = 400
    /\ h[i].req.query = <<"a", ".">>
    /\ DOMAIN store # {}

\* ------------------------------------------------------------------------
\* C39: the publish handlers drop the route root from the key, so the two
\* roots share one namespace: an accepted PUT /releases/P or PUT
\* /snapshots/P writes the key P, GET /releases/P and GET /snapshots/P
\* return the object stored at P, and a written key begins with releases/
\* or snapshots/ only when the group path of the request begins with that
\* segment.
\* ------------------------------------------------------------------------
RootOf(req) == req.path[2]

C39_PutStep ==
  \A i \in Handlers :
    (h[i].pc = "put" /\ h'[i].pc = "done")
    => LET P == ReqKey(h[i].req) IN
       /\ DOMAIN store' = (DOMAIN store) \cup {P}
       /\ store'[P] = h[i].req.body
       /\ \A r \in {"releases", "snapshots"} :
            StartsWith(P, <<r, "/">>) <=> ReqParts(h[i].req)[1] = <<r>>

C39_Get ==
  \A i \in Handlers :
    (GetDone(i) /\ h[i].store0 = store)
    => LET P == ReqKey(h[i].req) IN
       IF P \in DOMAIN store
       THEN h[i].status = 200 /\ h[i].body = store[P]
       ELSE h[i].status = 404

C39_SharedNamespace == [][C39_PutStep]_vars /\ [](C39_Get)

\* An object uploaded through /releases is downloaded through /snapshots
C39_Witness ==
  /\ ReleasePutDone(1) /\ h[1].status = 200
  /\ GetDone(2) /\ RootOf(h[2].req) = "snapshots"
  /\ ReqKey(h[2].req) = ReqKey(h[1].req)
  /\ h[2].status = 200 /\ h[2].body = h[1].req.body

\* An upload through /snapshots is refused by /releases: the key is taken
C39_WitnessConflict ==
  /\ SnapshotPutDone(1) /\ h[1].status = 200
  /\ ReleasePutDone(2) /\ h[2].status = 409
  /\ ReqKey(h[2].req) = ReqKey(h[1].req)

====
